---- MODULE Spec2Model ----
(***************************************************************************)
(* Verification model of the ontolearn retrieval/caching repository:       *)
(*   - CacheWithEviction and the semantic_caching_size wrapper             *)
(*     (ontolearn/semantic_caching.py),                                    *)
(*   - KnowledgeBase.encode_learning_problem (ontolearn/knowledge_base.py),*)
(*   - the search nodes and the two priority-queue search trees            *)
(*     (ontolearn/search.py) as driven by LengthBaseLearner.fit            *)
(*     (ontolearn/concept_learner.py).                                     *)
(* Each component has its own specification over the shared variables;     *)
(* the variables of the other components keep their initial values.        *)
(***************************************************************************)
EXTENDS Integers, Sequences, FiniteSets, TLC

VARIABLES
    \* CacheWithEviction
    cache,          \* OrderedDict key -> result, as a sequence of [key, value]
    access_times,   \* dict key -> timestamp, in insertion order, as a sequence of [key, t]
    cache_size,     \* configured capacity
    strategy,       \* 'FIFO' | 'LIFO' | 'LRU' | 'MRU' | 'RP'
    random_seed,    \* seed of the RP strategy
    initialized,    \* cold-start initialisation done
    clock,          \* value of the last time.time() reading
    cache_op,       \* the last cache / wrapper call and its outcome
    last_access,    \* history: the cached keys by their last put or get call, oldest
                    \* first (kept under LRU / MRU for direct put and get calls)
    \* semantic_caching_size closure
    cache_type,     \* 'cold' | 'warm'
    \* KnowledgeBase.encode_learning_problem
    lp_op,          \* the last encode_learning_problem call and its outcome
    \* one OENode (single-assignment fields)
    node,           \* [quality, heuristic, individuals_count, h_exp, refinement_count]
    node_op,        \* the last assignment attempted on the node and its outcome
    \* SearchTreePriorityQueue driven by LengthBaseLearner.fit
    lbl_nodes,      \* every LBLNode created: id -> [concept, parent, quality, heuristic, children]
    lbl_index,      \* SearchTreePriorityQueue.nodes: concept -> node id (0: absent)
    lbl_queue,      \* items_in_queue: the queued entries [prio, id], in no order
    lbl_current,    \* most_promising of the running iteration (0: none)
    lbl_op,         \* the last add_root / add_node call and its outcome
    \* DRILLSearchTreePriorityQueue
    drill_nodes,    \* nodes: rendering -> RL_State, as a sequence of [key, state]
    drill_queue,    \* items_in_queue as a sequence of [neg_heuristic, length, key]
    drill_op,       \* the last add / get_most_promising / clean call and its outcome
    \* CELOE
    celoe,          \* the learner: its nodes, search_tree, heuristic_queue,
                    \* best_descriptions, tested-concept count and configuration
    celoe_run,      \* the running fit call: its position, loop variables and clock
    celoe_op,       \* the last _add_node / next_node_to_expand call and its outcome
    \* the Flask application of simple_drill_endpoint
    http,           \* the request being served by concept_learning_endpoint
    http_log,       \* the status codes answered so far, oldest first
    \* send_http_request_to_ts_and_fetch_results
    ts_op,          \* the last query: its return type, its rows and what it yielded
    \* semantic_caching_size closure: what get_stats reports
    stats,          \* time_initialization, and (history) the time the one
                    \* cold-start pre-population took
    \* BaseConceptLearner.extend_ontology
    extend_op,      \* the last call: the search tree, top_n_concepts, the nodes enriched
    \* TripleStoreReasoner.instances
    inst_op,        \* the running call: the pending recursive calls, seen_set, the
                    \* classes queried so far
    \* TripleStoreOntology domain and range axioms
    axioms_op       \* the last call: the classes the store declares, what was yielded

cacheVars == <<cache, access_times, cache_size, strategy, random_seed, initialized,
               clock, cache_op, last_access, cache_type>>
lpVars    == <<lp_op>>
nodeVars  == <<node, node_op>>
lblVars   == <<lbl_nodes, lbl_index, lbl_queue, lbl_current, lbl_op>>
drillVars == <<drill_nodes, drill_queue, drill_op>>
celoeVars == <<celoe, celoe_run, celoe_op>>
svcVars   == <<http, http_log, ts_op>>
wrapVars  == <<stats>>
restVars  == <<extend_op, inst_op, axioms_op>>
extVars   == <<celoeVars, svcVars, wrapVars, restVars>>
vars == <<cacheVars, lpVars, nodeVars, lblVars, drillVars, extVars>>

(***************************************************************************)
(* Bounds of the model.                                                    *)
(***************************************************************************)
MaxCacheSize == 2
MaxWrapperCacheSize == 1
MaxClock == 2
MaxSeed == 2
MaxScore == 2
MaxCount == 2
MaxNodes == 4
MaxDrillScore == 1
MaxIterBound == 3
MaxRuntime == 1
MaxTested == 5
MaxResults == 1
MaxInitTime == 1

(***************************************************************************)
(* Python's None.  Cached results are sets of individuals, so None is a    *)
(* set that is no result; for a numeric field it is the number -1.          *)
(***************************************************************************)
None == {"None"}
NoneVal == -1

(***************************************************************************)
(* Class expressions (owlapy): one record shape for every constructor.     *)
(***************************************************************************)
OWLClass(n) ==
    [op |-> "OWLClass", name |-> n, inv |-> FALSE, args |-> <<>>]
OWLObjectComplementOf(e) ==
    [op |-> "OWLObjectComplementOf", name |-> "", inv |-> FALSE, args |-> <<e>>]
OWLObjectIntersectionOf(es) ==
    [op |-> "OWLObjectIntersectionOf", name |-> "", inv |-> FALSE, args |-> es]
OWLObjectUnionOf(es) ==
    [op |-> "OWLObjectUnionOf", name |-> "", inv |-> FALSE, args |-> es]
OWLObjectSomeValuesFrom(p, i, e) ==
    [op |-> "OWLObjectSomeValuesFrom", name |-> p, inv |-> i, args |-> <<e>>]
OWLObjectAllValuesFrom(p, i, e) ==
    [op |-> "OWLObjectAllValuesFrom", name |-> p, inv |-> i, args |-> <<e>>]

(***************************************************************************)
(* owl_expression_to_dl: the DL rendering, as a sequence of tokens.  A     *)
(* name is one token (a \w+ word of the regular expressions below); the    *)
(* operators are the tokens "not", "and", "or", "exists", "forall", "inv"  *)
(* (the inverse mark after a property name), ".", "(" and ")".  Boolean    *)
(* expressions and restrictions are parenthesised when nested.             *)
(***************************************************************************)
IsNested(e) == e.op # "OWLClass"

RECURSIVE Render(_)
RECURSIVE RenderOperands(_, _)
RenderNested(e) ==
    IF IsNested(e) THEN <<"(">> \o Render(e) \o <<")">> ELSE Render(e)

RenderOperands(es, sep) ==
    IF Len(es) = 0 THEN <<>>
    ELSE IF Len(es) = 1 THEN RenderNested(es[1])
    ELSE RenderNested(es[1]) \o <<sep>> \o RenderOperands(Tail(es), sep)

RenderProperty(e) ==
    IF e.inv THEN <<e.name, "inv">> ELSE <<e.name>>

Render(e) ==
    CASE e.op = "OWLClass" -> <<e.name>>
      [] e.op = "OWLObjectComplementOf" -> <<"not">> \o RenderNested(e.args[1])
      [] e.op = "OWLObjectIntersectionOf" -> RenderOperands(e.args, "and")
      [] e.op = "OWLObjectUnionOf" -> RenderOperands(e.args, "or")
      [] e.op = "OWLObjectSomeValuesFrom" ->
            <<"exists">> \o RenderProperty(e) \o <<".">> \o RenderNested(e.args[1])
      [] e.op = "OWLObjectAllValuesFrom" ->
            <<"forall">> \o RenderProperty(e) \o <<".">> \o RenderNested(e.args[1])

(***************************************************************************)
(* The knowledge base the retrieval function answers from: three           *)
(* individuals, two named classes, one object property.                    *)
(***************************************************************************)
All_individuals == {"i1", "i2", "i3"}

ClassExtension(n) ==
    CASE n = "A" -> {"i1", "i2"}
      [] n = "B" -> {"i2", "i3"}
      [] OTHER -> {}

\* asserted object property pairs <<subject, object>>
PropertyPairs(p) ==
    CASE p = "r" -> {<<"i1", "i2">>, <<"i3", "i1">>}
      [] OTHER -> {}

\* getattr(a, r.name): the objects of property p asserted on individual a
PropertyValues(a, p) == {pr[2] : pr \in {q \in PropertyPairs(p) : q[1] = a}}

RECURSIVE Extension(_)
RECURSIVE ExtensionAll(_)
RECURSIVE ExtensionAny(_)
ExtensionAll(es) ==
    IF Len(es) = 0 THEN All_individuals
    ELSE Extension(es[1]) \cap ExtensionAll(Tail(es))

ExtensionAny(es) ==
    IF Len(es) = 0 THEN {}
    ELSE Extension(es[1]) \cup ExtensionAny(Tail(es))

\* successors of a in the (possibly inverse) property of a restriction
Successors(e, a) ==
    IF e.inv THEN {b \in All_individuals : a \in PropertyValues(b, e.name)}
    ELSE PropertyValues(a, e.name)

\* the exact instance retrieval of a class expression
Extension(e) ==
    CASE e.op = "OWLClass" -> ClassExtension(e.name)
      [] e.op = "OWLObjectComplementOf" -> All_individuals \ Extension(e.args[1])
      [] e.op = "OWLObjectIntersectionOf" -> ExtensionAll(e.args)
      [] e.op = "OWLObjectUnionOf" -> ExtensionAny(e.args)
      [] e.op = "OWLObjectSomeValuesFrom" ->
            {a \in All_individuals : Successors(e, a) \cap Extension(e.args[1]) # {}}
      [] e.op = "OWLObjectAllValuesFrom" ->
            {a \in All_individuals : Successors(e, a) \subseteq Extension(e.args[1])}

\* retrieve / retrieve_other_reasoner: the wrapped retrieval function, exact
func(e) == Extension(e)

(***************************************************************************)
(* Python dict / OrderedDict as a sequence of [key, value] in insertion    *)
(* order.                                                                  *)
(***************************************************************************)
Keys(d) == {d[i].key : i \in 1..Len(d)}

IndexOf(d, k) == CHOOSE i \in 1..Len(d) : d[i].key = k

\* d.get(k): the value, or None
DictGet(d, k) == IF k \in Keys(d) THEN d[IndexOf(d, k)].value ELSE None

\* del d[k]
DictDel(d, k) == SelectSeq(d, LAMBDA e : e.key # k)

\* d[k] = v: an existing key keeps its place, a new key goes to the end
DictSet(d, k, v) ==
    IF k \in Keys(d)
    THEN [i \in 1..Len(d) |-> IF d[i].key = k THEN [key |-> k, value |-> v] ELSE d[i]]
    ELSE Append(d, [key |-> k, value |-> v])

\* min(d, key=d.get) / max(d, key=d.get): the first key with the least / greatest value
MinKey(d) ==
    LET i == CHOOSE i \in 1..Len(d) :
                 /\ \A j \in 1..Len(d) : d[i].value <= d[j].value
                 /\ \A j \in 1..(i - 1) : d[j].value > d[i].value
    IN d[i].key

MaxKey(d) ==
    LET i == CHOOSE i \in 1..Len(d) :
                 /\ \A j \in 1..Len(d) : d[i].value >= d[j].value
                 /\ \A j \in 1..(i - 1) : d[j].value < d[i].value
    IN d[i].key

(***************************************************************************)
(* CacheWithEviction.  A cache object is the record                        *)
(*   [cache, access_times, clock, error]                                   *)
(* error is "" or the exception that ended the call.                       *)
(***************************************************************************)
Strategies == {"FIFO", "LIFO", "LRU", "MRU", "RP"}

Self == [cache |-> cache, access_times |-> access_times, clock |-> clock, error |-> ""]

\* time.time(): the clock is read after it advanced by dt (0: the same reading
\* as the previous call); readings are cut at MaxClock
Tick(co, dt) == IF co.clock < MaxClock THEN co.clock + dt ELSE co.clock

\* random.seed(self.random_seed); random.choice(keys): an index fixed by
\* the seed and the number of keys
RandomChoice(n) == (random_seed % n) + 1

Raise(co, e) == [co EXCEPT !.error = e]

\* (mutant) nothing is ever evicted
_evict_never(co) == co

_evict(co) ==
    IF Len(co.cache) > cache_size
    THEN CASE strategy = "FIFO" -> [co EXCEPT !.cache = Tail(@)]
           [] strategy = "LIFO" -> [co EXCEPT !.cache = SubSeq(@, 1, Len(@) - 1)]
           [] strategy = "LRU" ->
                IF co.access_times = <<>> THEN Raise(co, "ValueError")
                ELSE LET lru_key == MinKey(co.access_times)
                     IN IF lru_key \notin Keys(co.cache) THEN Raise(co, "KeyError")
                        ELSE [co EXCEPT !.cache = DictDel(@, lru_key),
                                        !.access_times = DictDel(@, lru_key)]
           [] strategy = "MRU" ->
                IF co.access_times = <<>> THEN Raise(co, "ValueError")
                ELSE LET mru_key == MaxKey(co.access_times)
                     IN IF mru_key \notin Keys(co.cache) THEN Raise(co, "KeyError")
                        ELSE [co EXCEPT !.cache = DictDel(@, mru_key),
                                        !.access_times = DictDel(@, mru_key)]
           [] strategy = "RP" ->
                LET random_key == co.cache[RandomChoice(Len(co.cache))].key
                IN [co EXCEPT !.cache = DictDel(@, random_key),
                              !.access_times = DictDel(@, random_key)]
           [] OTHER -> co
    ELSE co

\* (mutant) the access time is written for a key that is not cached too
get_unguarded(co, key, dt) ==
    [co |-> IF strategy \in {"LRU", "MRU"}
            THEN [co EXCEPT !.access_times = DictSet(@, key, Tick(co, dt)),
                            !.clock = Tick(co, dt)]
            ELSE co,
     value |-> DictGet(co.cache, key)]

\* get(key): [co, value]
get(co, key, dt) ==
    IF key \in Keys(co.cache)
    THEN [co |-> IF strategy \in {"LRU", "MRU"}
                 THEN [co EXCEPT !.access_times = DictSet(@, key, Tick(co, dt)),
                                 !.clock = Tick(co, dt)]
                 ELSE co,
          value |-> DictGet(co.cache, key)]
    ELSE [co |-> co, value |-> None]

\* (mutant) the entry is inserted before the eviction runs
put_then_evict(co, key, value, dt) ==
    LET removed == IF key \in Keys(co.cache)
                   THEN [co EXCEPT !.cache = DictDel(@, key)]
                   ELSE co
        inserted == IF strategy \in {"LRU", "MRU"}
                    THEN [removed EXCEPT !.cache = DictSet(@, key, value),
                                         !.access_times = DictSet(@, key, Tick(removed, dt)),
                                         !.clock = Tick(removed, dt)]
                    ELSE [removed EXCEPT !.cache = DictSet(@, key, value)]
    IN _evict(inserted)

\* put(key, value): the cache object after the call
put(co, key, value, dt) ==
    LET removed == IF key \in Keys(co.cache)
                   THEN [co EXCEPT !.cache = DictDel(@, key)]
                   ELSE co
        evicted == _evict(removed)
    IN IF evicted.error # "" THEN evicted
       ELSE IF strategy \in {"LRU", "MRU"}
            THEN [evicted EXCEPT !.cache = DictSet(@, key, value),
                                 !.access_times = DictSet(@, key, Tick(evicted, dt)),
                                 !.clock = Tick(evicted, dt)]
            ELSE [evicted EXCEPT !.cache = DictSet(@, key, value)]


(***************************************************************************)
(* Initial values of each component.                                       *)
(***************************************************************************)
NoExpr == OWLClass("none")

CacheOp(o, e, k, r, err, p) ==
    [op |-> o, expr |-> e, key |-> k, result |-> r, error |-> err, path |-> p]

\* CacheWithEviction.__init__ and the closure variables of semantic_caching_size
\* (random_seed is read by the RP strategy only)
CacheNew(sizes) ==
    /\ cache = <<>>
    /\ access_times = <<>>
    /\ cache_size \in sizes
    /\ strategy \in Strategies
    /\ random_seed \in (IF strategy = "RP" THEN 0..MaxSeed ELSE {0})
    /\ initialized = FALSE
    /\ clock = 0
    /\ cache_op = CacheOp("new", NoExpr, <<>>, None, "", "")
    /\ last_access = <<>>

CacheIdle ==
    /\ cache = <<>>
    /\ access_times = <<>>
    /\ cache_size = 0
    /\ strategy = "LIFO"
    /\ random_seed = 0
    /\ initialized = FALSE
    /\ clock = 0
    /\ cache_op = CacheOp("new", NoExpr, <<>>, None, "", "")
    /\ last_access = <<>>
    /\ cache_type = "warm"

LpOp(o, pos, neg, err, kb_pos, kb_neg, kb_all, kb_diff) ==
    [op |-> o, pos |-> pos, neg |-> neg, error |-> err,
     kb_pos |-> kb_pos, kb_neg |-> kb_neg, kb_all |-> kb_all, kb_diff |-> kb_diff]

LpIdle == lp_op = LpOp("new", {}, {}, "", {}, {}, {}, {})

NodeOp(o, v, b, err) == [op |-> o, value |-> v, before |-> b, error |-> err]

\* OENode.__init__(concept, length)
OENode(length) ==
    [quality |-> NoneVal, heuristic |-> NoneVal, individuals_count |-> NoneVal,
     h_exp |-> length, refinement_count |-> 0]

NodeIdle ==
    /\ node = OENode(1)
    /\ node_op = NodeOp("new", NoneVal, NoneVal, "")

LblOp(o, c, r, err) == [op |-> o, concept |-> c, result |-> r, error |-> err]

\* fit before its first iteration: no node under expansion
NoCurrent == [node |-> 0, refinements |-> {}]

\* SearchTreePriorityQueue.__init__ / clean
LblIdle ==
    /\ lbl_nodes = <<>>
    /\ lbl_index = <<>>
    /\ lbl_queue = <<>>
    /\ lbl_current = NoCurrent
    /\ lbl_op = LblOp("new", "", "None", "")

\* no rendering: the key of a call that computed or returned none
NoKey == <<>>

\* one call on the DRILL search tree: the node handed to add (its rendering
\* key, quality, heuristic), the error raised and its message, the seconds
\* the call waited, the rendering of the node returned, and the index and
\* the queue as they were when the call started
DrillOp(o, k, q, h, err, msg, w, ret, nodes, queue) ==
    [op |-> o, key |-> k, quality |-> q, heuristic |-> h, error |-> err,
     message |-> msg, waited |-> w, returned |-> ret,
     nodes_before |-> nodes, queue_before |-> queue]

\* DRILLSearchTreePriorityQueue.__init__
DrillIdle ==
    /\ drill_nodes = <<>>
    /\ drill_queue = <<>>
    /\ drill_op = DrillOp("new", NoKey, NoneVal, NoneVal, "", "", 0, NoKey, <<>>, <<>>)

\* CELOE.__init__: the learner with its budgets and switches
CELOE(iter_bound, max_runtime, max_num_of_concepts_tested, terminate_on_goal, best_only) ==
    [nodes |-> <<>>, search_tree |-> <<>>, heuristic_queue |-> {}, best_descriptions |-> {},
     number_of_tested_concepts |-> 0, max_he |-> 0, min_he |-> 1,
     iter_bound |-> iter_bound, max_runtime |-> max_runtime,
     max_num_of_concepts_tested |-> max_num_of_concepts_tested,
     terminate_on_goal |-> terminate_on_goal, best_only |-> best_only]

\* the local variables of a fit call: where it stands, the loop variable j,
\* most_promising (a node id), minimum_length, the refinements still to visit,
\* the seconds since start_time, the exception that ended it, and the return
\* statement it left by ("goal", "runtime", "tested" or "iter_bound")
FitRun(pc, j, most_promising, minimum_length, refinements, elapsed, error, returned) ==
    [pc |-> pc, j |-> j, most_promising |-> most_promising,
     minimum_length |-> minimum_length, refinements |-> refinements,
     elapsed |-> elapsed, error |-> error, returned |-> returned]

\* one _add_node / next_node_to_expand call: the concept, the node it made or
\* returned, what it returned, the exception, and the learner before the call
CeloeOp(o, c, n, r, err, before) ==
    [op |-> o, concept |-> c, node |-> n, result |-> r, error |-> err, before |-> before]

CeloeIdle ==
    /\ celoe = CELOE(1, 0, 1, FALSE, FALSE)
    /\ celoe_run = FitRun("new", 0, 0, 0, <<>>, 0, "", "")
    /\ celoe_op = CeloeOp("new", "", 0, "None", "", CELOE(1, 0, 1, FALSE, FALSE))

\* a request of the endpoint: where the handler stands, what the body held,
\* how fit ended, which calls were made and the status answered (0: none yet)
Request(pc, json, no_of_hypotheses, fit, retrieved, exported, logged, status) ==
    [pc |-> pc, json |-> json, no_of_hypotheses |-> no_of_hypotheses, fit |-> fit,
     retrieved |-> retrieved, exported |-> exported, logged |-> logged,
     status |-> status]

HttpIdle ==
    /\ http = Request("idle", "", 0, "", FALSE, FALSE, FALSE, 0)
    /\ http_log = <<>>

\* a query of the triple store: the return type asked for, the rows of
\* results.bindings, the values handed to the caller and the error raised
Fetch(o, return_type, bindings, yielded, err, queries) ==
    [op |-> o, return_type |-> return_type, bindings |-> bindings,
     yielded |-> yielded, error |-> err, queries |-> queries]

TsIdle == ts_op = Fetch("new", "", <<>>, <<>>, "", 0)

SvcIdle == HttpIdle /\ TsIdle

\* time_initialization = 0
WrapIdle == stats = [time_initialization |-> 0, populated_in |-> 0]

\* one extend_ontology call: the nodes of the search tree in its order (each
\* by its key value), top_n_concepts, and the positions of the tree enriched
Extend(o, tree, top_n_concepts, enriched) ==
    [op |-> o, tree |-> tree, top_n_concepts |-> top_n_concepts, enriched |-> enriched]

\* one top-level instances call: the store's equivalentClass assertions, the
\* calls not yet finished (each: its class and the equivalent classes its loop
\* has still to visit), seen_set, and the classes queried, in order
Instances(o, assertions, stack, seen_set, queried) ==
    [op |-> o, assertions |-> assertions, stack |-> stack, seen_set |-> seen_set,
     queried |-> queried]

\* one domain / range axioms call: the method, the classes the query gives,
\* the classes of the axioms yielded and the exception raised
Axioms(o, declared, yielded, err) ==
    [op |-> o, declared |-> declared, yielded |-> yielded, error |-> err]

RestIdle ==
    /\ extend_op = Extend("new", <<>>, 0, <<>>)
    /\ inst_op = Instances("new", {}, <<>>, {}, <<>>)
    /\ axioms_op = Axioms("new", <<>>, <<>>, "")

ExtIdle == CeloeIdle /\ SvcIdle /\ WrapIdle /\ RestIdle

(***************************************************************************)
(* SpecCache: a CacheWithEviction object under any sequence of put and     *)
(* get calls.                                                              *)
(***************************************************************************)
CacheKeys == {<<"A">>, <<"B">>, <<"not", "A">>}
CacheValues == {{}, {"i1"}}

SetSelf(co) ==
    /\ cache' = co.cache
    /\ access_times' = co.access_times
    /\ clock' = co.clock

\* the call order of the last accesses after a call on key left the cache as co
Accessed(co, key) ==
    IF strategy \in {"LRU", "MRU"}
    THEN SelectSeq(IF key \in Keys(co.cache)
                   THEN SelectSeq(last_access, LAMBDA k : k # key) \o <<key>>
                   ELSE last_access,
                   LAMBDA k : k \in Keys(co.cache))
    ELSE last_access

Put ==
    \E key \in CacheKeys, value \in CacheValues, dt \in 0..1 :
        LET co == put(Self, key, value, dt)
        IN /\ SetSelf(co)
           /\ cache_op' = CacheOp("put", NoExpr, key, value, co.error,
                                  IF Keys(cache) \ Keys(co.cache) # {} THEN "evicted" ELSE "")
           /\ last_access' = (IF co.error = "" THEN Accessed(co, key) ELSE last_access)
           /\ UNCHANGED <<cache_size, strategy, random_seed, initialized, cache_type>>
           /\ UNCHANGED <<lpVars, nodeVars, lblVars, drillVars, extVars>>

Get ==
    \E key \in CacheKeys, dt \in 0..1 :
        LET r == get(Self, key, dt)
        IN /\ SetSelf(r.co)
           /\ cache_op' = CacheOp("get", NoExpr, key, r.value, r.co.error, "")
           /\ last_access' = Accessed(r.co, key)
           /\ UNCHANGED <<cache_size, strategy, random_seed, initialized, cache_type>>
           /\ UNCHANGED <<lpVars, nodeVars, lblVars, drillVars, extVars>>

InitCache == CacheNew(0..MaxCacheSize) /\ cache_type = "warm" /\ LpIdle /\ NodeIdle /\ LblIdle /\ DrillIdle /\ ExtIdle

NextCache == Put \/ Get

SpecCache == InitCache /\ [][NextCache]_vars

\* C1: with capacity >= 1, the number of cached entries is at most the
\* capacity right after every put that returned.
C1_SizeWithinCapacityAfterPut ==
    (cache_op.op = "put" /\ cache_op.error = "" /\ cache_size >= 1)
        => Len(cache) <= cache_size

\* The bound the code does keep: capacity + 1 entries.
CacheAtMostOneOver == Len(cache) <= cache_size + 1

\* C24: after a put that returned, the key is in the cache and get on it
\* gives the value put: the eviction of a put never removes the key it puts.
C24_PutKeyIsCached ==
    (cache_op.op = "put" /\ cache_op.error = "")
        => /\ cache_op.key \in Keys(cache)
           /\ get(Self, cache_op.key, 0).value = cache_op.result

\* a put into a full LIFO cache, which evicted the entry put last before it
C24_Witness ==
    /\ cache_op.op = "put" /\ cache_op.error = "" /\ cache_op.path = "evicted"
    /\ strategy = "LIFO" /\ cache_size = 1
    /\ cache[Len(cache)].key = cache_op.key

\* the keys a step removed from the cache
Victims == Keys(cache) \ Keys(cache')

\* C25: a put removes at most one entry other than the one it puts, and the
\* cache never holds more than capacity + 1 entries.
C25_OneVictimAndOneOver ==
    /\ [](Len(cache) <= cache_size + 1)
    /\ [][cache_op'.op = "put" => Cardinality(Victims \ {cache_op'.key}) <= 1]_vars

\* a put that evicted an entry from a cache holding capacity + 1 entries
C25_Witness ==
    /\ cache_op.op = "put" /\ cache_op.path = "evicted"
    /\ cache_size = 1 /\ Len(cache) = 2

\* C26: under LRU and MRU the access-time table has the keys of the cache
\* after every call, and no put fails in its eviction.
C26_AccessTimesMatchCache ==
    strategy \in {"LRU", "MRU"}
        => /\ Keys(access_times) = Keys(cache)
           /\ cache_op.error = ""

\* an LRU put that evicted an entry, the table holding capacity + 1 keys
C26_Witness ==
    /\ strategy = "LRU" /\ cache_op.op = "put" /\ cache_op.path = "evicted"
    /\ Len(access_times) = cache_size + 1
    /\ clock = MaxClock

\* C11: whenever a put evicts, FIFO removes the entry inserted earliest, LIFO the
\* entry inserted most recently, LRU the entry whose last put or get call is the
\* oldest and MRU the entry whose last put or get call is the newest; the key
\* of a put that returned is at the back of the insertion order.
C11_VictimChoice ==
    [][ cache_op'.op = "put" =>
          /\ \A k \in Victims :
                /\ strategy = "FIFO" => k = cache[1].key
                /\ strategy = "LIFO" => k = cache[Len(cache)].key
                /\ strategy = "LRU" => k = last_access[1]
                /\ strategy = "MRU" => k = last_access[Len(last_access)]
          /\ cache_op'.error = "" => cache'[Len(cache')].key = cache_op'.key ]_vars

\* What the code does keep: the LRU victim has the least and the MRU victim the
\* greatest recorded timestamp, and FIFO / LIFO remove the two ends.
VictimByTimestamp ==
    [][ cache_op'.op = "put" =>
          \A k \in Victims :
                /\ strategy = "FIFO" => k = cache[1].key
                /\ strategy = "LIFO" => k = cache[Len(cache)].key
                /\ strategy = "LRU" =>
                      \A i \in 1..Len(access_times) :
                          DictGet(access_times, k) <= access_times[i].value
                /\ strategy = "MRU" =>
                      \A i \in 1..Len(access_times) :
                          DictGet(access_times, k) >= access_times[i].value ]_vars

(***************************************************************************)
(* semantic_caching_size: the wrapper around the retrieval function.       *)
(***************************************************************************)
ScalableLimit == 1000

Operators == {"not", "and", "or", "exists", "forall", "inv", ".", "(", ")"}

\* \w+ : a name
IsWord(tok) == tok \notin Operators

\* re.sub(pattern_negated, replacement_negated, s):
\*   forall p.(not C)  ->  exists p.C
RECURSIVE SubNegated(_)
SubNegated(s) ==
    IF Len(s) = 0 THEN <<>>
    ELSE IF /\ Len(s) >= 7
            /\ s[1] = "forall" /\ IsWord(s[2]) /\ s[3] = "." /\ s[4] = "("
            /\ s[5] = "not" /\ IsWord(s[6]) /\ s[7] = ")"
         THEN <<"exists", s[2], ".", s[6]>> \o SubNegated(SubSeq(s, 8, Len(s)))
         ELSE <<s[1]>> \o SubNegated(Tail(s))

\* re.sub(pattern_non_negated, replacement_non_negated, s):
\*   forall p.C  ->  exists p.(not C)
RECURSIVE SubNonNegated(_)
SubNonNegated(s) ==
    IF Len(s) = 0 THEN <<>>
    ELSE IF /\ Len(s) >= 4
            /\ s[1] = "forall" /\ IsWord(s[2]) /\ s[3] = "." /\ IsWord(s[4])
         THEN <<"exists", s[2], ".", "(", "not", s[4], ")">>
                  \o SubNonNegated(SubSeq(s, 5, Len(s)))
         ELSE <<s[1]>> \o SubNonNegated(Tail(s))

transform_forall_to_exists(expression) == SubNonNegated(SubNegated(expression))

\* s.split(tok)[-1]: what follows the last occurrence of tok
SplitLast(s, tok) ==
    LET at == {i \in 1..Len(s) : s[i] = tok}
    IN IF at = {} THEN s
       ELSE SubSeq(s, (CHOOSE i \in at : \A j \in at : j <= i) + 1, Len(s))

\* onto.search_one(iri=ind): the ontology entity of an individual IRI
Entity(ind) ==
    CASE ind = "i1" -> "onto.i1"
      [] ind = "i2" -> "onto.i2"
      [] ind = "i3" -> "onto.i3"
      [] OTHER -> "onto.None"

\* retrieve_from_cache(expression): [co, value]
retrieve_from_cache(co, expression, dt) == get(co, expression, dt)

Outcome(co, r, p) == [co |-> co, result |-> r, path |-> p]

\* the double loop of handle_owl_some_values_from over All_individuals x instances
SomeValuesLoop(e, instances) ==
    IF e.inv
    THEN {Entity(ind_a) : ind_a \in
             {a \in All_individuals : \E ind_b \in instances : a \in PropertyValues(ind_b, e.name)}}
    ELSE {ind_a \in All_individuals : \E ind_b \in instances : ind_b \in PropertyValues(ind_a, e.name)}

\* handle_owl_some_values_from(owl_expression), inside a wrapper call whose
\* argument is arg0 (func(*args) retrieves the wrapper's argument)
handle_owl_some_values_from(co, owl_expression, arg0, dt) ==
    IF Cardinality(All_individuals) < ScalableLimit
    THEN LET r == retrieve_from_cache(co, Render(owl_expression.args[1]), dt)
         IN IF r.value # None
            THEN Outcome(r.co, SomeValuesLoop(owl_expression, r.value), "cached")
            ELSE Outcome(r.co, func(arg0), "func")
    ELSE Outcome(co, func(arg0), "func")

RECURSIVE PutClasses(_, _, _)
PutClasses(co, cs, dt) ==
    IF Len(cs) = 0 \/ co.error # "" THEN co
    ELSE PutClasses(put(co, Render(cs[1]), func(cs[1]), dt), Tail(cs), dt)

RECURSIVE PutComplements(_, _, _)
PutComplements(co, cs, dt) ==
    IF Len(cs) = 0 \/ co.error # "" THEN co
    ELSE LET negated_cls_str == Render(cs[1])
             found == DictGet(co.cache, SplitLast(negated_cls_str, "not"))
             cached == IF found = None THEN func(cs[1]) ELSE found
             neg == All_individuals \ cached
         IN PutComplements(put(co, negated_cls_str, neg, dt), Tail(cs), dt)

RECURSIVE PutExistentials(_, _, _, _)
PutExistentials(co, cs, arg0, dt) ==
    IF Len(cs) = 0 \/ co.error # "" THEN co
    ELSE LET h == handle_owl_some_values_from(co, cs[1], arg0, dt)
         IN PutExistentials(put(h.co, Render(cs[1]), h.result, dt), Tail(cs), arg0, dt)

\* initialize_cache(...), called from a wrapper call whose argument is arg0
initialize_cache(co, concepts, arg0, dt) ==
    LET class_concepts == SelectSeq(concepts, LAMBDA c : c.op = "OWLClass")
        negated_class_concepts == SelectSeq(concepts, LAMBDA c : c.op = "OWLObjectComplementOf")
        existential_concepts == SelectSeq(concepts, LAMBDA c : c.op = "OWLObjectSomeValuesFrom")
    IN PutExistentials(
           PutComplements(PutClasses(co, class_concepts, dt), negated_class_concepts, dt),
           existential_concepts, arg0, dt)

\* the branches of wrapper on the type of the expression: [co, result, path]
Answer(co, owl_expression, dt) ==
    LET str_expression == Render(owl_expression)
        viaFunc(c) == Outcome(c, func(owl_expression), "func")
    IN CASE owl_expression.op = "OWLClass" ->
              LET r == retrieve_from_cache(co, str_expression, dt)
              IN IF r.value # None THEN Outcome(r.co, r.value, "cached") ELSE viaFunc(r.co)
         [] owl_expression.op = "OWLObjectComplementOf" ->
              IF cache_type = "cold"
              THEN LET r == retrieve_from_cache(co, str_expression, dt)
                   IN IF r.value # None THEN Outcome(r.co, r.value, "cached") ELSE viaFunc(r.co)
              ELSE LET r == retrieve_from_cache(co, SplitLast(str_expression, "not"), dt)
                   IN IF r.value # None
                      THEN Outcome(r.co, All_individuals \ r.value, "cached")
                      ELSE viaFunc(r.co)
         [] owl_expression.op \in {"OWLObjectIntersectionOf", "OWLObjectUnionOf"} ->
              LET c == retrieve_from_cache(co, Render(owl_expression.args[1]), dt)
                  d == retrieve_from_cache(c.co, Render(owl_expression.args[2]), dt)
              IN IF c.value # None /\ d.value # None
                 THEN Outcome(d.co,
                              IF owl_expression.op = "OWLObjectIntersectionOf"
                              THEN c.value \cap d.value ELSE c.value \cup d.value,
                              "cached")
                 ELSE viaFunc(d.co)
         [] owl_expression.op = "OWLObjectSomeValuesFrom" ->
              IF cache_type = "cold"
              THEN LET r == retrieve_from_cache(co, str_expression, dt)
                   IN IF r.value # None THEN Outcome(r.co, r.value, "cached")
                      ELSE handle_owl_some_values_from(r.co, owl_expression, owl_expression, dt)
              ELSE handle_owl_some_values_from(co, owl_expression, owl_expression, dt)
         [] owl_expression.op = "OWLObjectAllValuesFrom" ->
              LET r == retrieve_from_cache(co, transform_forall_to_exists(str_expression), dt)
              IN IF r.value # None
                 THEN Outcome(r.co, All_individuals \ r.value, "cached")
                 ELSE viaFunc(r.co)
         [] OTHER -> viaFunc(co)

(***************************************************************************)
(* SpecWrap: the wrapper called on the expressions of the benchmark list.  *)
(***************************************************************************)
ClsA == OWLClass("A")
ClsB == OWLClass("B")
NotA == OWLObjectComplementOf(ClsA)

\* alc_concepts: named classes, complements, unions, intersections,
\* existential and universal restrictions
concepts ==
    << ClsA, ClsB, NotA,
       OWLObjectIntersectionOf(<<ClsA, ClsB>>),
       OWLObjectIntersectionOf(<<ClsA, ClsB, NotA>>),
       OWLObjectUnionOf(<<ClsA, ClsB>>),
       OWLObjectSomeValuesFrom("r", FALSE, ClsA),
       OWLObjectSomeValuesFrom("r", FALSE, NotA),
       OWLObjectSomeValuesFrom("r", TRUE, ClsA),
       OWLObjectAllValuesFrom("r", FALSE, ClsA),
       OWLObjectAllValuesFrom("r", FALSE, NotA),
       OWLObjectAllValuesFrom("r", FALSE, OWLObjectIntersectionOf(<<ClsA, ClsB>>)) >>

\* the list given to semantic_caching_size as concepts, which the cold start
\* precomputes: the whole benchmark list, or its named classes and complements
ConceptLists ==
    {concepts,
     SelectSeq(concepts, LAMBDA c : c.op \in {"OWLClass", "OWLObjectComplementOf"})}

\* wrapper(expression, path_onto, third)
wrapper ==
    \E n \in 1..Len(concepts), dt \in 0..1,
       precomputed \in (IF cache_type = "cold" /\ ~initialized
                        THEN ConceptLists ELSE {concepts}),
       elapsed \in (IF cache_type = "cold" /\ ~initialized
                    THEN 0..MaxInitTime ELSE {0}) :
        LET owl_expression == concepts[n]
            cold == cache_type = "cold" /\ ~initialized
            co0 == IF cold THEN initialize_cache(Self, precomputed, owl_expression, dt) ELSE Self
            a == Answer(co0, owl_expression, dt)
            co1 == put(a.co, Render(owl_expression), a.result, dt)
        IN IF co0.error # ""
           THEN /\ SetSelf(co0)
                /\ cache_op' = CacheOp("wrapper", owl_expression, Render(owl_expression),
                                       None, co0.error, "")
                /\ UNCHANGED <<cache_size, strategy, random_seed, initialized, cache_type,
                               last_access>>
                /\ UNCHANGED <<lpVars, nodeVars, lblVars, drillVars, extVars>>
           ELSE /\ SetSelf(co1)
                /\ initialized' = (initialized \/ cold)
                \* time_initialization = time.time() - start_time_initialization,
                \* in every call: nothing runs between the readings but the
                \* pre-population of the first cold call
                /\ stats' = [time_initialization |-> elapsed,
                             populated_in |-> IF cold THEN elapsed ELSE stats.populated_in]
                /\ cache_op' = CacheOp("wrapper", owl_expression, Render(owl_expression),
                                       IF co1.error = "" THEN a.result ELSE None,
                                       co1.error, a.path)
                /\ UNCHANGED <<cache_size, strategy, random_seed, cache_type, last_access>>
                /\ UNCHANGED <<lpVars, nodeVars, lblVars, drillVars, celoeVars, svcVars, restVars>>

InitWrap ==
    /\ CacheNew(0..MaxWrapperCacheSize) /\ cache_type \in {"cold", "warm"}
    /\ LpIdle /\ NodeIdle /\ LblIdle /\ DrillIdle /\ ExtIdle

NextWrap == wrapper

SpecWrap == InitWrap /\ [][NextWrap]_vars

\* the five shapes the wrapper answers from cached operands
OperandShapes ==
    {"OWLObjectComplementOf", "OWLObjectIntersectionOf", "OWLObjectUnionOf",
     "OWLObjectSomeValuesFrom", "OWLObjectAllValuesFrom"}

\* C2: a wrapper call on a complement, intersection, union, existential or
\* universal restriction that was answered from the cached operand entries
\* returns exactly the instances of the expression in the knowledge base.
C2_CachedPathIsExact ==
    (/\ cache_op.op = "wrapper" /\ cache_op.error = ""
     /\ cache_op.expr.op \in OperandShapes
     /\ cache_op.path = "cached")
        => cache_op.result = Extension(cache_op.expr)

\* C15: a wrapper call on an intersection or union of three or more operands
\* is answered by the underlying retrieval call, never from cached operands.
C15_CachedOperandsOnlyForBinary ==
    (/\ cache_op.op = "wrapper" /\ cache_op.error = ""
     /\ cache_op.expr.op \in {"OWLObjectIntersectionOf", "OWLObjectUnionOf"}
     /\ Len(cache_op.expr.args) >= 3)
        => cache_op.path = "func"

\* C16: once the cold-start initialisation is done, the entry of a complement
\* not C, when cached, is the universe minus the instances of C.
C16_ColdComplementIsUniverseMinusExtension ==
    (cache_type = "cold" /\ initialized /\ Render(NotA) \in Keys(cache))
        => DictGet(cache, Render(NotA)) = All_individuals \ Extension(ClsA)

\* C22: in cold mode, once the cache is pre-populated, the time_initialization
\* that get_stats reports is the time the pre-population took, whatever
\* wrapper calls came after it.
C22_InitializationTimeIsKept ==
    (cache_type = "cold" /\ initialized)
        => stats.time_initialization = stats.populated_in

\* C27: two wrapper calls on the same expression return equal result sets
\* (checked on two calls in a row, the least the claim asks for).
C27_RepeatedCallSameResult ==
    [][ (/\ cache_op.op = "wrapper" /\ cache_op.error = ""
         /\ cache_op'.op = "wrapper" /\ cache_op'.error = ""
         /\ cache_op'.expr = cache_op.expr)
            => cache_op'.result = cache_op.result ]_vars

(***************************************************************************)
(* KnowledgeBase.encode_learning_problem for a PosNegLPStandard.           *)
(***************************************************************************)
\* individuals a learning problem may name: those of the knowledge base
\* and one that is not in it
LpIndividuals == All_individuals \cup {"x1"}

\* lp.all: None, or a restricted universe
LpAllChoices == {None, {"i1", "i2"}}

\* self.class_hierarchy(): the classes of the knowledge base (possibly none)
ClassHierarchies == {{}, {"A", "B"}}

\* KnowledgeBase.individuals_set(arg) for an iterable of individuals
individuals_set(arg) == arg

\* KnowledgeBase.all_individuals_set()
all_individuals_set == All_individuals

\* (mutant) the size check with positives allowed to fill the universe
LpSizesOkInclusive(pos, neg, kb_all) ==
    /\ 0 < Cardinality(pos) /\ Cardinality(pos) <= Cardinality(kb_all)
    /\ Cardinality(kb_all) > Cardinality(neg)

\* assert 0 < len(lp.pos) < len(kb_all) and len(kb_all) > len(lp.neg)
LpSizesOk(pos, neg, kb_all) ==
    /\ 0 < Cardinality(pos) /\ Cardinality(pos) < Cardinality(kb_all)
    /\ Cardinality(kb_all) > Cardinality(neg)

\* random.sample(list(kb_all), len(kb_pos)): any choice of that many individuals
RandomSamples(kb_all, k) == {smp \in SUBSET kb_all : Cardinality(smp) = k}

\* (mutant) the remainder computed without the negatives
KbDiffWithoutNeg(kb_all, kb_pos, kb_neg) == kb_all \ kb_pos

\* kb_all.difference(kb_pos.union(kb_neg))
KbDiff(kb_all, kb_pos, kb_neg) == kb_all \ (kb_pos \cup kb_neg)

encode_learning_problem ==
    \E pos \in SUBSET LpIndividuals, neg \in SUBSET LpIndividuals,
       all \in LpAllChoices, class_hierarchy \in ClassHierarchies :
        /\ pos \cap neg = {}
        /\ LET kb_all == IF all = None THEN all_individuals_set ELSE individuals_set(all)
               kb_pos == individuals_set(pos)
               failed == LpOp("encode", pos, neg, "AssertionError", {}, {}, kb_all, {})
           IN IF Cardinality(class_hierarchy) = 0 \/ ~LpSizesOk(pos, neg, kb_all)
              THEN lp_op' = failed
              ELSE \E kb_neg \in (IF Cardinality(neg) = 0
                                  THEN RandomSamples(kb_all, Cardinality(kb_pos))
                                  ELSE {individuals_set(neg)}) :
                       IF \/ Cardinality(kb_pos) # Cardinality(pos)
                          \/ (neg # {} /\ Cardinality(kb_neg) # Cardinality(neg))
                       THEN lp_op' = failed
                       ELSE lp_op' = LpOp("encode", pos, neg, "", kb_pos, kb_neg, kb_all,
                                          KbDiff(kb_all, kb_pos, kb_neg))
        /\ UNCHANGED <<cacheVars, nodeVars, lblVars, drillVars, extVars>>

InitLp == CacheIdle /\ LpIdle /\ NodeIdle /\ LblIdle /\ DrillIdle /\ ExtIdle

NextLp == encode_learning_problem

SpecLp == InitLp /\ [][NextLp]_vars

LpReturned == lp_op.op = "encode" /\ lp_op.error = ""

\* C3: the positives and the negatives of every encoded learning problem
\* are disjoint, also when the negatives were sampled.
C3_PosNegDisjoint == LpReturned => lp_op.kb_pos \cap lp_op.kb_neg = {}

\* C4: kb_diff of every encoded learning problem is kb_all minus the union
\* of kb_pos and kb_neg.
C4_DiffIsRemainder ==
    LpReturned =>
        /\ \A i \in lp_op.kb_diff :
               i \in lp_op.kb_all /\ i \notin lp_op.kb_pos /\ i \notin lp_op.kb_neg
        /\ \A i \in lp_op.kb_all :
               i \in lp_op.kb_pos \/ i \in lp_op.kb_neg \/ i \in lp_op.kb_diff

C4_Witness ==
    /\ LpReturned
    /\ lp_op.kb_diff # {} /\ lp_op.kb_neg # {} /\ lp_op.neg # {}
    /\ lp_op.kb_neg \ lp_op.kb_pos # {}

\* C5 as claimed: encoding fails whenever the positives are empty, equal the
\* universe, contain an individual outside it, or are larger than it.
C5_RejectsEmptyEqualOrExceeding ==
    (/\ lp_op.op = "encode"
     /\ \/ lp_op.pos = {}
        \/ lp_op.pos = lp_op.kb_all
        \/ ~(lp_op.pos \subseteq lp_op.kb_all)
        \/ Cardinality(lp_op.pos) > Cardinality(lp_op.kb_all))
        => lp_op.error = "AssertionError"

\* C5 as the code has it: encoding fails whenever the positives are empty or
\* are at least as many as the universe (so also when they equal it or
\* include all of it).
C5_RejectsEmptyOrNotSmaller ==
    (/\ lp_op.op = "encode"
     /\ \/ lp_op.pos = {}
        \/ Cardinality(lp_op.pos) >= Cardinality(lp_op.kb_all))
        => (/\ lp_op.error = "AssertionError"
            /\ lp_op.kb_pos = {} /\ lp_op.kb_neg = {} /\ lp_op.kb_diff = {})

C5_Witness ==
    /\ lp_op.op = "encode"
    /\ lp_op.pos = lp_op.kb_all
    /\ lp_op.error = "AssertionError"

(***************************************************************************)
(* SpecNode: the single-assignment fields of one OENode.  Scores are       *)
(* 0..MaxScore (quality 0.0 .. 1.0 in steps), counts are 0..MaxCount.      *)
(***************************************************************************)
Scores == 0..MaxScore
Counts == 0..MaxCount

\* (mutant) a truthiness test instead of "is not None": 0 counts as unset
IsSetTruthy(v) == v # NoneVal /\ v # 0

\* self._quality is not None
IsSet(v) == v # NoneVal

\* _NodeQuality.quality setter
SetQuality ==
    \E v \in Scores :
        /\ IF IsSet(node.quality)
           THEN /\ node' = node
                /\ node_op' = NodeOp("quality", v, node.quality, "ValueError")
           ELSE /\ node' = [node EXCEPT !.quality = v]
                /\ node_op' = NodeOp("quality", v, node.quality, "")
        /\ UNCHANGED <<cacheVars, lpVars, lblVars, drillVars, extVars>>

\* _NodeIndividualsCount.individuals_count setter
SetIndividualsCount ==
    \E v \in Counts :
        /\ IF IsSet(node.individuals_count)
           THEN /\ node' = node
                /\ node_op' = NodeOp("individuals_count", v, node.individuals_count,
                                     "ValueError")
           ELSE /\ node' = [node EXCEPT !.individuals_count = v]
                /\ node_op' = NodeOp("individuals_count", v, node.individuals_count, "")
        /\ UNCHANGED <<cacheVars, lpVars, lblVars, drillVars, extVars>>

\* _NodeHeuristic.heuristic setter (v may be None)
SetHeuristic ==
    \E v \in Scores \cup {NoneVal} :
        /\ IF IsSet(v) /\ IsSet(node.heuristic)
           THEN /\ node' = node
                /\ node_op' = NodeOp("heuristic", v, node.heuristic, "ValueError")
           ELSE /\ node' = [node EXCEPT !.heuristic = v]
                /\ node_op' = NodeOp("heuristic", v, node.heuristic, "")
        /\ UNCHANGED <<cacheVars, lpVars, lblVars, drillVars, extVars>>

\* OENode.increment_h_exp
increment_h_exp ==
    /\ node.h_exp < MaxCount + 1
    /\ node' = [node EXCEPT !.heuristic = NoneVal, !.h_exp = @ + 1]
    /\ node_op' = NodeOp("increment_h_exp", NoneVal, node.heuristic, "")
    /\ UNCHANGED <<cacheVars, lpVars, lblVars, drillVars, extVars>>

\* OENode.refinement_count setter
SetRefinementCount ==
    \E v \in Counts :
        /\ node' = [node EXCEPT !.heuristic = NoneVal, !.refinement_count = v]
        /\ node_op' = NodeOp("refinement_count", v, node.heuristic, "")
        /\ UNCHANGED <<cacheVars, lpVars, lblVars, drillVars, extVars>>

InitNode == CacheIdle /\ LpIdle /\ NodeIdle /\ LblIdle /\ DrillIdle /\ ExtIdle

NextNode ==
    \/ SetQuality
    \/ SetIndividualsCount
    \/ SetHeuristic
    \/ increment_h_exp
    \/ SetRefinementCount

SpecNode == InitNode /\ [][NextNode]_vars

\* C6: once quality, heuristic or individuals_count holds a value, assigning
\* the field a second value raises an error and keeps the stored value.
C6_SecondAssignmentFails ==
    /\ (node_op.op = "quality" /\ node_op.before # NoneVal)
           => (node_op.error = "ValueError" /\ node.quality = node_op.before)
    /\ (node_op.op = "individuals_count" /\ node_op.before # NoneVal)
           => (node_op.error = "ValueError" /\ node.individuals_count = node_op.before)
    /\ (node_op.op = "heuristic" /\ node_op.before # NoneVal /\ node_op.value # NoneVal)
           => (node_op.error = "ValueError" /\ node.heuristic = node_op.before)

C6_Witness ==
    /\ node_op.op = "quality" /\ node_op.before = 0 /\ node_op.value = MaxScore
    /\ node_op.error = "ValueError"
    /\ node.heuristic # NoneVal /\ node.individuals_count # NoneVal

(***************************************************************************)
(* SpecLbl: SearchTreePriorityQueue as LengthBaseLearner.fit drives it.    *)
(* A node is [concept, parent, quality, heuristic, children]; its identity *)
(* is its place in lbl_nodes (parent 0: the root).  Nodes compare by       *)
(* identity.                                                               *)
(***************************************************************************)
\* the start class and the concepts the refinement operator produces
StartClass == "Thing"
\* operator.refine(node.concept, ...): the concepts one expansion yields
refine(c) ==
    CASE c = "Thing" -> {"A", "B"}
      [] c = "A" -> {"B", "C"}
      [] c = "C" -> {"A"}
      [] OTHER -> {}

\* quality_func.apply: the score of a concept on the learning problem
\* (0: weak, MaxScore: goal)
QualityOf(c) ==
    CASE c = "Thing" -> 1
      [] c = "A" -> 1
      [] c = "B" -> 0
      [] OTHER -> MaxScore

\* LBLNode.__init__ (get_node)
LBLNode(c, parent) ==
    [concept |-> c, parent |-> parent, quality |-> NoneVal, heuristic |-> NoneVal,
     children |-> {}]

\* PriorityQueue.put((-node.heuristic, HeuristicOrderedNode(node)))
QueuePut(q, nodes, id) == Append(q, [prio |-> 0 - nodes[id].heuristic, id |-> id])

\* OrderedOWLObject(as_index(c1)) < OrderedOWLObject(as_index(c2)): a fixed
\* strict total order of the concepts
ConceptRank(c) ==
    CASE c = "Thing" -> 0
      [] c = "A" -> 1
      [] c = "B" -> 2
      [] c = "C" -> 3
      [] OTHER -> 4

LessConcept(c1, c2) == ConceptRank(c1) < ConceptRank(c2)

\* the entries PriorityQueue.get may return: the least by (-heuristic, concept);
\* entries equal in both are returned in an order the heap decides
QueueLeast(q, nodes) ==
    {i \in 1..Len(q) :
        \A j \in 1..Len(q) :
            \/ q[i].prio < q[j].prio
            \/ (q[i].prio = q[j].prio /\ ~LessConcept(nodes[q[j].id].concept, nodes[q[i].id].concept))}

QueueRemove(q, i) == SubSeq(q, 1, i - 1) \o SubSeq(q, i + 1, Len(q))

\* SearchTreePriorityQueue.add_root
add_root ==
    /\ lbl_index = <<>>
    /\ lbl_nodes = <<>>
    /\ \E h \in Scores :
        LET root == [LBLNode(StartClass, 0) EXCEPT !.quality = QualityOf(StartClass),
                                                   !.heuristic = h]
            nodes == <<root>>
        IN /\ lbl_nodes' = nodes
           /\ lbl_queue' = QueuePut(lbl_queue, nodes, 1)
           /\ lbl_index' = DictSet(lbl_index, StartClass, 1)
           /\ lbl_current' = NoCurrent
           /\ lbl_op' = LblOp("add_root", StartClass, "None", "")
    /\ UNCHANGED <<cacheVars, lpVars, nodeVars, drillVars, extVars>>

\* LengthBaseLearner.next_node_to_expand -> SearchTreePriorityQueue.get_most_promising
next_node_to_expand ==
    /\ lbl_queue # <<>>
    /\ lbl_current.refinements = {}
    /\ \E i \in QueueLeast(lbl_queue, lbl_nodes) :
        LET most_promising_str == lbl_nodes[lbl_queue[i].id]
            id == DictGet(lbl_index, most_promising_str.concept)
        IN /\ lbl_queue' = QueuePut(QueueRemove(lbl_queue, i), lbl_nodes, id)
           /\ lbl_current' = [node |-> id, refinements |-> refine(lbl_nodes[id].concept)]
           /\ lbl_op' = LblOp("next_node_to_expand", most_promising_str.concept, "None", "")
    /\ UNCHANGED <<lbl_nodes, lbl_index>>
    /\ UNCHANGED <<cacheVars, lpVars, nodeVars, drillVars, extVars>>

\* SearchTreePriorityQueue.add_node(node=nodes[n], parent_node=parent_node) with
\* the heuristic function giving h: [nodes, index, queue, result, error]
AddNodeResult(nodes, index, queue, r, err) ==
    [nodes |-> nodes, index |-> index, queue |-> queue, result |-> r, error |-> err]

add_node(nodes, n, parent_node, h) ==
    LET nd == nodes[n]
    IN IF nd.concept \in Keys(lbl_index) /\ nd.parent # parent_node
       THEN \* heuristic_func.apply on the node, then new_heuristic > old_heuristic
            IF IsSet(nd.heuristic)
            THEN AddNodeResult(nodes, lbl_index, lbl_queue, "None", "ValueError")
            ELSE AddNodeResult([nodes EXCEPT ![n].heuristic = h], lbl_index, lbl_queue,
                               "None", "TypeError")
       ELSE IF IsSet(nd.quality)
            THEN AddNodeResult(nodes, lbl_index, lbl_queue, "None", "ValueError")
            ELSE IF QualityOf(nd.concept) = 0
                 THEN AddNodeResult([nodes EXCEPT ![n].quality = 0], lbl_index, lbl_queue,
                                    "False", "")
                 ELSE LET scored == [nodes EXCEPT ![n].quality = QualityOf(nd.concept),
                                                  ![n].heuristic = h]
                      IN AddNodeResult(
                             [scored EXCEPT ![parent_node].children = @ \cup {n}],
                             DictSet(lbl_index, nd.concept, n),
                             QueuePut(lbl_queue, scored, n),
                             IF QualityOf(nd.concept) = MaxScore THEN "True" ELSE "None",
                             "")

\* one pass of the inner loop of LengthBaseLearner.fit (terminate_on_goal is
\* False, the learner's default, so a goal node does not end the search):
\*   ref = get_node(i, parent_node=most_promising)
\*   add_node(node=ref, parent_node=most_promising, ...)
FitAddNode ==
    /\ Len(lbl_nodes) < MaxNodes
    /\ \E c \in lbl_current.refinements, h \in Scores :
        LET most_promising == lbl_current.node
            ref == Len(lbl_nodes) + 1
            created == Append(lbl_nodes, LBLNode(c, most_promising))
            r == add_node(created, ref, most_promising, h)
        IN /\ lbl_nodes' = (IF r.result = "False" THEN lbl_nodes ELSE r.nodes)
           /\ lbl_index' = r.index
           /\ lbl_queue' = r.queue
           /\ lbl_current' = [lbl_current EXCEPT !.refinements = @ \ {c}]
           /\ lbl_op' = LblOp("add_node", c, r.result, r.error)
    /\ UNCHANGED <<cacheVars, lpVars, nodeVars, drillVars, extVars>>

InitLbl == CacheIdle /\ LpIdle /\ NodeIdle /\ LblIdle /\ DrillIdle /\ ExtIdle

NextLbl == add_root \/ next_node_to_expand \/ FitAddNode

SpecLbl == InitLbl /\ [][NextLbl]_vars

\* nodes of the tree: the root and every node in some children set
Attached(n) == lbl_nodes[n].parent = 0 \/ \E p \in 1..Len(lbl_nodes) : n \in lbl_nodes[p].children

\* C7: each concept is held by at most one node of the tree (no second node
\* with the same concept hangs in any children set).
C7_OneNodePerConcept ==
    \A m, n \in 1..Len(lbl_nodes) :
        (m # n /\ Attached(m) /\ Attached(n)) => lbl_nodes[m].concept # lbl_nodes[n].concept

(***************************************************************************)
(* SpecDrill: DRILLSearchTreePriorityQueue under any sequence of add,      *)
(* get_most_promising and clean calls of one caller.  An RL_State is       *)
(* [concept, quality, heuristic].                                          *)
(***************************************************************************)
RECURSIVE get_nnf(_)
RECURSIVE NegatedNnf(_)
\* concept.get_nnf(): negation pushed inward down to the named classes
get_nnf(e) ==
    CASE e.op = "OWLClass" -> e
      [] e.op = "OWLObjectComplementOf" -> NegatedNnf(e.args[1])
      [] e.op = "OWLObjectIntersectionOf" ->
            OWLObjectIntersectionOf([i \in 1..Len(e.args) |-> get_nnf(e.args[i])])
      [] e.op = "OWLObjectUnionOf" ->
            OWLObjectUnionOf([i \in 1..Len(e.args) |-> get_nnf(e.args[i])])
      [] e.op = "OWLObjectSomeValuesFrom" ->
            OWLObjectSomeValuesFrom(e.name, e.inv, get_nnf(e.args[1]))
      [] e.op = "OWLObjectAllValuesFrom" ->
            OWLObjectAllValuesFrom(e.name, e.inv, get_nnf(e.args[1]))

\* the negation normal form of the complement of e
NegatedNnf(e) ==
    CASE e.op = "OWLClass" -> OWLObjectComplementOf(e)
      [] e.op = "OWLObjectComplementOf" -> get_nnf(e.args[1])
      [] e.op = "OWLObjectIntersectionOf" ->
            OWLObjectUnionOf([i \in 1..Len(e.args) |-> NegatedNnf(e.args[i])])
      [] e.op = "OWLObjectUnionOf" ->
            OWLObjectIntersectionOf([i \in 1..Len(e.args) |-> NegatedNnf(e.args[i])])
      [] e.op = "OWLObjectSomeValuesFrom" ->
            OWLObjectAllValuesFrom(e.name, e.inv, NegatedNnf(e.args[1]))
      [] e.op = "OWLObjectAllValuesFrom" ->
            OWLObjectSomeValuesFrom(e.name, e.inv, NegatedNnf(e.args[1]))

\* the characters of one token of the rendering (" ⊓ ", " ⊔ ", "∃ ", "∀ ";
\* every other token, the one-letter names included, is one character)
TokenChars(t) ==
    CASE t \in {"and", "or"} -> 3
      [] t \in {"exists", "forall"} -> 2
      [] OTHER -> 1

\* len(owl_expression_to_dl(c)) of a rendering
RECURSIVE StrLen(_)
StrLen(ts) == IF ts = <<>> THEN 0 ELSE TokenChars(ts[1]) + StrLen(Tail(ts))

\* the tokens by the code point of their first differing character
TokenRank(t) ==
    CASE t = "and" -> 0
      [] t = "or" -> 1
      [] t = "(" -> 2
      [] t = ")" -> 3
      [] t = "." -> 4
      [] t = "A" -> 5
      [] t = "B" -> 6
      [] t = "r" -> 7
      [] t = "not" -> 8
      [] t = "inv" -> 9
      [] t = "forall" -> 10
      [] OTHER -> 11

\* str.__lt__ on two renderings
RECURSIVE LessStr(_, _)
LessStr(s, t) ==
    IF t = <<>> THEN FALSE
    ELSE IF s = <<>> THEN TRUE
    ELSE IF s[1] = t[1] THEN LessStr(Tail(s), Tail(t))
    ELSE TokenRank(s[1]) < TokenRank(t[1])

\* tuple.__lt__ on two queue entries (neg_heuristic, length, dl_representation)
LessEntry(a, b) ==
    \/ a.neg_heuristic < b.neg_heuristic
    \/ (a.neg_heuristic = b.neg_heuristic /\ a.length < b.length)
    \/ (a.neg_heuristic = b.neg_heuristic /\ a.length = b.length
            /\ LessStr(a.dl_representation, b.dl_representation))

\* the entries PriorityQueue.get may return: those no other entry is less than
LeastEntries(q) == {i \in 1..Len(q) : \A j \in 1..Len(q) : ~LessEntry(q[j], q[i])}

\* RL_State(concept) with its quality and heuristic as the caller set them
RL_State(c, q, h) == [concept |-> c, quality |-> q, heuristic |-> h]

\* the concepts handed to add: some share a negation normal form
DrillConcepts ==
    { ClsA,
      OWLObjectComplementOf(NotA),
      OWLObjectComplementOf(OWLObjectIntersectionOf(<<ClsA, ClsB>>)),
      OWLObjectUnionOf(<<NotA, OWLObjectComplementOf(ClsB)>>),
      OWLObjectSomeValuesFrom("r", FALSE, ClsA),
      OWLObjectComplementOf(OWLObjectAllValuesFrom("r", FALSE, NotA)) }

DrillScores == {NoneVal} \cup 0..MaxDrillScore

\* queue.get(timeout=1.0): the seconds an empty queue is waited on
GetTimeout == 1

\* `dl_representation in self.nodes`
IndexedNever(nodes, dl_representation) == FALSE

Indexed(nodes, dl_representation) == dl_representation \in Keys(nodes)

\* `node.quality > 0`
QualityPositiveOrZero(quality) == quality >= 0

QualityPositive(quality) == quality > 0

\* `len(self.items_in_queue.queue) > 0`
QueueNotChecked(queue) == TRUE

QueueNotEmpty(queue) == Len(queue) > 0

\* DRILLSearchTreePriorityQueue.add(node)
add ==
    /\ \E c \in DrillConcepts, q \in DrillScores, h \in DrillScores :
        LET state == RL_State(c, q, h)
            dl_representation == Render(get_nnf(state.concept))
            Rejected(err, msg) ==
                /\ drill_op' = DrillOp("add", dl_representation, q, h, err, msg, 0, NoKey,
                                       drill_nodes, drill_queue)
                /\ UNCHANGED <<drill_nodes, drill_queue>>
        IN IF ~IsSet(state.quality)
           THEN Rejected("TypeError", "'>' not supported between NoneType and int")
           ELSE IF ~QualityPositive(state.quality)
           THEN Rejected("AssertionError", "cannot be added into the search tree")
           ELSE IF ~IsSet(state.heuristic)
           THEN Rejected("AssertionError", "")
           ELSE /\ drill_op' = DrillOp("add", dl_representation, q, h, "", "", 0, NoKey,
                                       drill_nodes, drill_queue)
                /\ IF Indexed(drill_nodes, dl_representation)
                   THEN UNCHANGED <<drill_nodes, drill_queue>>
                   ELSE /\ drill_queue' = Append(drill_queue,
                                [neg_heuristic |-> 0 - state.heuristic,
                                 length |-> StrLen(Render(state.concept)),
                                 dl_representation |-> dl_representation])
                        /\ drill_nodes' = DictSet(drill_nodes, dl_representation, state)
    /\ UNCHANGED <<cacheVars, lpVars, nodeVars, lblVars, extVars>>

\* DRILLSearchTreePriorityQueue.get_most_promising()
get_most_promising ==
    /\ IF ~QueueNotEmpty(drill_queue)
       THEN /\ drill_op' = DrillOp("get_most_promising", NoKey, NoneVal, NoneVal,
                                   "AssertionError", "Search tree is empty", 0, NoKey,
                                   drill_nodes, drill_queue)
            /\ UNCHANGED <<drill_nodes, drill_queue>>
       ELSE IF drill_queue = <<>>
       THEN \* get(timeout=1.0) finds no entry within the timeout
            /\ drill_op' = DrillOp("get_most_promising", NoKey, NoneVal, NoneVal,
                                   "Empty", "", GetTimeout, NoKey, drill_nodes, drill_queue)
            /\ UNCHANGED <<drill_nodes, drill_queue>>
       ELSE \E i \in LeastEntries(drill_queue) :
            LET dl_representation == drill_queue[i].dl_representation
                state == DictGet(drill_nodes, dl_representation)
            IN /\ drill_queue' = QueueRemove(drill_queue, i)
               /\ drill_op' = DrillOp("get_most_promising", NoKey, state.quality, state.heuristic,
                                      "", "", 0, dl_representation, drill_nodes, drill_queue)
               /\ UNCHANGED drill_nodes
    /\ UNCHANGED <<cacheVars, lpVars, nodeVars, lblVars, extVars>>

\* DRILLSearchTreePriorityQueue.clean()
clean ==
    /\ drill_nodes # <<>>
    /\ drill_queue' = <<>>
    /\ drill_nodes' = <<>>
    /\ drill_op' = DrillOp("clean", NoKey, NoneVal, NoneVal, "", "", 0, NoKey,
                           drill_nodes, drill_queue)
    /\ UNCHANGED <<cacheVars, lpVars, nodeVars, lblVars, extVars>>

InitDrill == CacheIdle /\ LpIdle /\ NodeIdle /\ LblIdle /\ DrillIdle /\ ExtIdle

NextDrill == add \/ get_most_promising \/ clean

SpecDrill == InitDrill /\ [][NextDrill]_vars

DrillUnchanged == drill_nodes = drill_op.nodes_before /\ drill_queue = drill_op.queue_before

\* C8: each rendering of a negation normal form is indexed by at most one node
\* and enqueued at most once, and an accepted add of a node whose rendering is
\* already indexed (still queued or already returned) changes neither the
\* index nor the queue.
C8_RenderingIndexedAndQueuedOnce ==
    /\ \A i, j \in 1..Len(drill_nodes) : i # j => drill_nodes[i].key # drill_nodes[j].key
    /\ \A i, j \in 1..Len(drill_queue) :
          i # j => drill_queue[i].dl_representation # drill_queue[j].dl_representation
    /\ (drill_op.op = "add" /\ drill_op.error = "" /\ drill_op.key \in Keys(drill_op.nodes_before))
          => DrillUnchanged

\* an accepted add of a rendering that is indexed and was already returned
\* (no longer queued), while another rendering is still queued
C8_Witness ==
    /\ drill_op.op = "add" /\ drill_op.error = ""
    /\ drill_op.key \in Keys(drill_op.nodes_before)
    /\ \A i \in 1..Len(drill_op.queue_before) :
          drill_op.queue_before[i].dl_representation # drill_op.key
    /\ drill_op.queue_before # <<>>

\* C9 as stated: add fails its precondition for every node whose quality is not
\* positive or whose heuristic is unset, and leaves index and queue unchanged.
C9_RejectsByPrecondition ==
    (drill_op.op = "add"
        /\ ((IsSet(drill_op.quality) /\ drill_op.quality <= 0) \/ ~IsSet(drill_op.heuristic)))
      => (drill_op.error = "AssertionError" /\ DrillUnchanged)

\* C9: add fails its precondition for every node whose quality is set and not
\* positive, or whose quality is positive and whose heuristic is unset; a node
\* whose quality is unset fails with a type error instead; every rejected add
\* leaves index and queue unchanged.
C9_RejectsNonPositiveOrUnset ==
    /\ (drill_op.op = "add"
          /\ ((IsSet(drill_op.quality) /\ drill_op.quality <= 0)
               \/ (drill_op.quality > 0 /\ ~IsSet(drill_op.heuristic))))
        => (drill_op.error = "AssertionError" /\ DrillUnchanged)
    /\ (drill_op.op = "add" /\ ~IsSet(drill_op.quality))
        => (drill_op.error = "TypeError" /\ DrillUnchanged)
    /\ (drill_op.op = "add" /\ drill_op.error # "") => DrillUnchanged

\* a rejected add of a node of quality 0 with its heuristic set, on a tree that
\* holds an indexed and queued node
C9_Witness ==
    /\ drill_op.op = "add" /\ drill_op.quality = 0 /\ IsSet(drill_op.heuristic)
    /\ drill_op.error = "AssertionError"
    /\ drill_nodes # <<>> /\ drill_queue # <<>>

\* C10: get_most_promising on a queue that holds no entry fails with the
\* empty-search-tree error after waiting at most the timeout of 1 second, and
\* returns no node.
C10_EmptyQueueFailsWithinTimeout ==
    (drill_op.op = "get_most_promising" /\ drill_op.queue_before = <<>>)
      => /\ drill_op.error = "AssertionError"
         /\ drill_op.message = "Search tree is empty"
         /\ drill_op.waited <= GetTimeout
         /\ drill_op.returned = NoKey
         /\ DrillUnchanged

\* get_most_promising on a queue emptied by earlier calls, the index still
\* holding the returned nodes
C10_Witness ==
    /\ drill_op.op = "get_most_promising" /\ drill_op.queue_before = <<>>
    /\ drill_op.nodes_before # <<>>
    /\ drill_op.error = "AssertionError"

(***************************************************************************)
(* SpecCeloe: one CELOE.fit call on a fresh learner.  An OENode is the     *)
(* record of OENode(length) with its concept, length, parent and is_root;  *)
(* its identity is its place in celoe.nodes.  The quality function, the    *)
(* heuristic function and the refinement operator are the learner's        *)
(* parameters: a quality and a heuristic are any score, MaxScore being the *)
(* quality 1.0.                                                            *)
(***************************************************************************)
CeloeConcepts == {"Thing", "A", "B", "C", "D"}

\* kb.cl(c): the length of a concept
cl(c) == IF c \in {"C", "D"} THEN 2 ELSE 1

\* operator.refine(concept, max_length=..., current_domain=start_class): a
\* finite refinement operator, giving the refinements up to the length
operator_refine(c, max_length) ==
    {r \in (CASE c = "Thing" -> {"A", "B", "C"}
              [] c = "A" -> {"C", "D"}
              [] c = "B" -> {"A", "D"}
              [] OTHER -> {}) : cl(r) <= max_length}

\* SortedSet(..., key=OrderedOWLObject): the concepts in their order
RECURSIVE SortedConcepts(_)
SortedConcepts(S) ==
    IF S = {} THEN <<>>
    ELSE LET least == CHOOSE c \in S : \A d \in S : ~LessConcept(d, c)
         IN <<least>> \o SortedConcepts(S \ {least})

\* CELOE.make_node
make_node(c, parent_node, is_root) ==
    [concept |-> c, len |-> cl(c), parent_node |-> parent_node, is_root |-> is_root]
        @@ OENode(cl(c))

\* HeuristicOrderedNode.__lt__ on two nodes of the learner
LessHeuristic(nodes, a, b) ==
    \/ nodes[a].heuristic < nodes[b].heuristic
    \/ (nodes[a].heuristic = nodes[b].heuristic
            /\ LessConcept(nodes[a].concept, nodes[b].concept))

\* reversed(self.heuristic_queue): the open list from its best end
RECURSIVE Reversed(_, _)
Reversed(nodes, queue) ==
    IF queue = {} THEN <<>>
    ELSE LET best == CHOOSE a \in queue : \A b \in queue : ~LessHeuristic(nodes, a, b)
         IN <<best>> \o Reversed(nodes, queue \ {best})

\* QualityOrderedNode.__lt__ on two nodes of the learner
LessQuality(nodes, a, b) ==
    \/ nodes[a].quality < nodes[b].quality
    \/ (nodes[a].quality = nodes[b].quality /\ nodes[a].len > nodes[b].len)
    \/ (nodes[a].quality = nodes[b].quality /\ nodes[a].len = nodes[b].len
            /\ LessConcept(nodes[a].concept, nodes[b].concept))

\* EvaluatedDescriptionSet.maybe_add(node): [items, added]
maybe_add(nodes, items, n) ==
    IF Cardinality(items) < MaxResults
    THEN [items |-> items \cup {n}, added |-> TRUE]
    ELSE LET worst == CHOOSE a \in items : \A b \in items : ~LessQuality(nodes, b, a)
         IN IF LessQuality(nodes, worst, n)
            THEN [items |-> (items \ {worst}) \cup {n}, added |-> TRUE]
            ELSE [items |-> items, added |-> FALSE]

\* TreeNode(ref, tree_parent, is_root): the search tree with the new tree node
\* indexed under its concept and added to the children of tree_parent
TreeNode(search_tree, c, n, tree_parent, is_root) ==
    LET attached ==
            IF is_root THEN search_tree
            ELSE DictSet(search_tree, tree_parent,
                         [DictGet(search_tree, tree_parent) EXCEPT !.children = @ \cup {c}])
    IN DictSet(attached, c, [node |-> n, children |-> {}])

\* `ref.concept in self.search_tree`
InSearchTreeNever(l, c) == FALSE

InSearchTree(l, c) == c \in Keys(l.search_tree)

\* `ref.quality == 0`: too weak
TooWeakNever(quality) == FALSE

TooWeak(quality) == quality = 0

\* CELOE._add_node(ref, tree_parent), ref a fresh node of concept c and parent
\* node parent_node, scored q by the quality function and h by the heuristic
\* function: [learner, node, result, error]
AddNodeOutcome(l, n, r, err) == [learner |-> l, node |-> n, result |-> r, error |-> err]

_add_node(l, c, parent_node, is_root, tree_parent, q, h) ==
    IF InSearchTree(l, c) THEN AddNodeOutcome(l, 0, "False", "")
    ELSE LET ref == Len(l.nodes) + 1
             scored == [make_node(c, parent_node, is_root) EXCEPT !.quality = q,
                                                                !.individuals_count = 0]
             indexed == [l EXCEPT !.search_tree = TreeNode(@, c, ref, tree_parent, is_root),
                                  !.nodes = Append(@, scored),
                                  !.number_of_tested_concepts = @ + 1]
         IN IF ~is_root /\ tree_parent \notin Keys(l.search_tree)
            THEN AddNodeOutcome(l, 0, "None", "AssertionError")
            ELSE IF TooWeak(q) THEN AddNodeOutcome(indexed, ref, "False", "")
            ELSE LET nodes == [indexed.nodes EXCEPT ![ref].heuristic = h]
                     best == maybe_add(nodes, indexed.best_descriptions, ref)
                 IN AddNodeOutcome([indexed EXCEPT !.nodes = nodes,
                                                   !.best_descriptions = best.items,
                                                   !.heuristic_queue = @ \cup {ref}],
                                   ref, "True", "")

\* `node.quality < 1.0`
LesserAccuracyOrEqual(quality) == quality <= MaxScore

LesserAccuracy(quality) == quality < MaxScore

\* CELOE.next_node_to_expand: [node, error]
next_best(l) ==
    LET open == Reversed(l.nodes, l.heuristic_queue)
        unsolved == SelectSeq(open, LAMBDA n : LesserAccuracy(l.nodes[n].quality))
    IN IF ~l.best_only
       THEN IF unsolved = <<>> THEN [node |-> 0, error |-> "ValueError"]
            ELSE [node |-> unsolved[1], error |-> ""]
       ELSE IF open = <<>> THEN [node |-> 0, error |-> "IndexError"]
            ELSE [node |-> open[1], error |-> ""]

IncrementedNot(h_exp) == h_exp

\* OENode.increment_h_exp: self._horizontal_expansion += 1
Incremented(h_exp) == h_exp + 1

\* CELOE.downward_refinement(node) with the heuristic function giving h for
\* the expanded node: [learner, refinements]
downward_refinement(l, n, h) ==
    LET refinements == SortedConcepts(operator_refine(l.nodes[n].concept, l.nodes[n].h_exp))
    IN [learner |-> [l EXCEPT !.nodes[n].h_exp = Incremented(@),
                              !.nodes[n].refinement_count = Len(refinements),
                              !.nodes[n].heuristic = h,
                              !.heuristic_queue = (@ \ {n}) \cup {n}],
        refinements |-> refinements]

\* the scan of CELOE.update_min_max_horiz_exp over reversed(heuristic_queue):
\* TRUE when it ends by return (another node at the minimum)
RECURSIVE AnotherAtMinimum(_, _, _, _)
AnotherAtMinimum(l, open, n, threshold_score) ==
    IF open = <<>> THEN FALSE
    ELSE IF open[1] = n THEN AnotherAtMinimum(l, Tail(open), n, threshold_score)
    ELSE IF l.nodes[open[1]].h_exp = l.min_he THEN TRUE
    ELSE IF l.nodes[open[1]].heuristic < threshold_score THEN FALSE
    ELSE AnotherAtMinimum(l, Tail(open), n, threshold_score)

\* CELOE.update_min_max_horiz_exp(node)
update_min_max_horiz_exp(l, n) ==
    LET he == l.nodes[n].h_exp
        threshold_score == l.nodes[n].heuristic + MaxScore - l.nodes[n].quality
        raised == [l EXCEPT !.max_he = IF he > @ THEN he ELSE @]
    IN IF l.min_he = he - 1
          /\ ~AnotherAtMinimum(l, Reversed(l.nodes, l.heuristic_queue), n, threshold_score)
       THEN [raised EXCEPT !.min_he = @ + 1]
       ELSE raised

\* `time.time() - self.start_time > self._max_runtime`
RuntimeExceeded(elapsed, max_runtime) == elapsed > max_runtime

\* `self.number_of_tested_concepts >= self.max_num_of_concepts_tested`
TestedReachedNever(tested, max_num_of_concepts_tested) == FALSE

TestedReached(tested, max_num_of_concepts_tested) == tested >= max_num_of_concepts_tested

\* `goal_found and self.terminate_on_goal`
GoalEndsNever(goal_found, terminate_on_goal) == FALSE

GoalEnds(goal_found, terminate_on_goal) == goal_found /\ terminate_on_goal

Done(run, error, returned) == [run EXCEPT !.pc = "done", !.error = error, !.returned = returned]

\* fit up to the loop: clean, the root node, its _add_node, the assertion on
\* the open list, start_time
FitStart ==
    /\ celoe_run.pc = "new"
    /\ \E q \in Scores, h \in Scores :
        LET r == _add_node(celoe, "Thing", 0, TRUE, "", q, h)
        IN /\ celoe' = r.learner
           /\ celoe_op' = CeloeOp("_add_node", "Thing", r.node, r.result, r.error, celoe)
           /\ celoe_run' = IF Cardinality(r.learner.heuristic_queue) # 1
                           THEN Done(celoe_run, "AssertionError", "")
                           ELSE [celoe_run EXCEPT !.pc = "loop", !.j = 1, !.elapsed = 0]
    /\ UNCHANGED <<cacheVars, lpVars, nodeVars, lblVars, drillVars, svcVars, wrapVars,
                   restVars>>

\* the head of one pass of `for j in range(1, self.iter_bound)`:
\* next_node_to_expand, node_tree_parent, minimum_length, downward_refinement
FitExpand ==
    /\ celoe_run.pc = "loop"
    /\ IF celoe_run.j >= celoe.iter_bound
       THEN /\ celoe_run' = Done(celoe_run, "", "iter_bound")
            /\ UNCHANGED <<celoe, celoe_op>>
       ELSE LET most_promising == next_best(celoe)
            IN IF most_promising.error # ""
               THEN /\ celoe_run' = Done(celoe_run, most_promising.error, "")
                    /\ celoe_op' = CeloeOp("next_node_to_expand", "", 0, "None",
                                           most_promising.error, celoe)
                    /\ UNCHANGED celoe
               ELSE \E h \in Scores :
                    LET n == most_promising.node
                        d == downward_refinement(celoe, n, h)
                    IN /\ celoe' = d.learner
                       /\ celoe_op' = CeloeOp("next_node_to_expand", celoe.nodes[n].concept, n,
                                              "None", "", celoe)
                       /\ celoe_run' = [celoe_run EXCEPT !.pc = "refine",
                                                         !.most_promising = n,
                                                         !.minimum_length = celoe.nodes[n].h_exp,
                                                         !.refinements = d.refinements]
    /\ UNCHANGED <<cacheVars, lpVars, nodeVars, lblVars, drillVars, svcVars, wrapVars,
                   restVars>>

\* one pass of `for ref in self.downward_refinement(most_promising)`
FitRefinement ==
    /\ celoe_run.pc = "refine"
    /\ celoe_run.refinements # <<>>
    /\ LET c == Head(celoe_run.refinements)
           rest == [celoe_run EXCEPT !.refinements = Tail(@)]
       IN IF cl(c) < celoe_run.minimum_length
          THEN /\ celoe_run' = rest
               /\ celoe_op' = CeloeOp("continue", c, 0, "None", "", celoe)
               /\ UNCHANGED celoe
          ELSE \E q \in Scores, h \in Scores :
               LET tree_parent == celoe.nodes[celoe_run.most_promising].concept
                   r == _add_node(celoe, c, celoe_run.most_promising, FALSE, tree_parent, q, h)
                   goal_found == r.result = "True" /\ r.learner.nodes[r.node].quality = MaxScore
               IN /\ celoe' = r.learner
                  /\ celoe_op' = CeloeOp("_add_node", c, r.node, r.result, r.error, celoe)
                  /\ celoe_run' = IF r.error # "" THEN Done(rest, r.error, "")
                                  ELSE IF GoalEnds(goal_found, celoe.terminate_on_goal)
                                  THEN Done(rest, "", "goal")
                                  ELSE rest
    /\ UNCHANGED <<cacheVars, lpVars, nodeVars, lblVars, drillVars, svcVars, wrapVars,
                   restVars>>

\* the end of one pass of the outer loop: the statistics, the runtime check and
\* the tested-concepts check (dt: the seconds the pass took)
FitStepEnd ==
    /\ celoe_run.pc = "refine"
    /\ celoe_run.refinements = <<>>
    /\ \E dt \in 0..1 :
        LET elapsed == IF celoe_run.elapsed <= MaxRuntime THEN celoe_run.elapsed + dt
                       ELSE celoe_run.elapsed
            now == [celoe_run EXCEPT !.elapsed = elapsed]
        IN /\ celoe' = update_min_max_horiz_exp(celoe, celoe_run.most_promising)
           /\ celoe_op' = CeloeOp("step_end", "", 0, "None", "", celoe)
           /\ celoe_run' =
                IF RuntimeExceeded(elapsed, celoe.max_runtime) THEN Done(now, "", "runtime")
                ELSE IF TestedReached(celoe.number_of_tested_concepts,
                                      celoe.max_num_of_concepts_tested)
                THEN Done(now, "", "tested")
                ELSE [now EXCEPT !.pc = "loop", !.j = @ + 1]
    /\ UNCHANGED <<cacheVars, lpVars, nodeVars, lblVars, drillVars, svcVars, wrapVars,
                   restVars>>

InitCeloe ==
    /\ CacheIdle /\ LpIdle /\ NodeIdle /\ LblIdle /\ DrillIdle /\ SvcIdle /\ WrapIdle
    /\ RestIdle
    /\ \E iter_bound \in 1..MaxIterBound, max_runtime \in 0..MaxRuntime,
          max_num_of_concepts_tested \in 1..MaxTested,
          terminate_on_goal \in BOOLEAN, best_only \in BOOLEAN :
          /\ celoe = CELOE(iter_bound, max_runtime, max_num_of_concepts_tested,
                           terminate_on_goal, best_only)
          /\ celoe_op = CeloeOp("new", "", 0, "None", "", celoe)
    /\ celoe_run = FitRun("new", 0, 0, 0, <<>>, 0, "", "")

NextCeloe == FitStart \/ FitExpand \/ FitRefinement \/ FitStepEnd

SpecCeloe == InitCeloe /\ [][NextCeloe]_vars

\* the work fit has left: the passes of the outer loop still allowed, each
\* longer than any list of refinements, and the refinements of the running pass
PassWeight == Cardinality(CeloeConcepts) + 2

FitRank ==
    CASE celoe_run.pc = "done" -> 0
      [] celoe_run.pc = "new" -> (celoe.iter_bound + 1) * PassWeight
      [] celoe_run.pc = "loop" -> (celoe.iter_bound - celoe_run.j + 1) * PassWeight
      [] OTHER -> (celoe.iter_bound - celoe_run.j) * PassWeight
                      + 1 + Len(celoe_run.refinements)

\* C12: fit terminates: it runs step j only for j up to iter_bound, every
\* action of fit lessens the work left, which is never negative, and fit does
\* not go on to another step once a step ended with the runtime above
\* max_runtime or with the number of scored concepts at
\* max_num_of_concepts_tested.
C12_FitTerminatesWithinBudgets ==
    /\ [](celoe_run.pc = "refine" => celoe_run.j <= celoe.iter_bound)
    /\ []((celoe_run.pc = "loop" /\ celoe_run.j >= 2)
             => /\ celoe_run.elapsed <= celoe.max_runtime
                /\ celoe.number_of_tested_concepts < celoe.max_num_of_concepts_tested)
    /\ [](FitRank >= 0)
    /\ [][FitRank' < FitRank]_vars

\* fit returned at the end of its second step because the runtime was exceeded,
\* with concepts left to test
C12_Witness ==
    /\ celoe_run.pc = "done" /\ celoe_run.returned = "runtime" /\ celoe_run.j = 2
    /\ celoe.number_of_tested_concepts < celoe.max_num_of_concepts_tested

\* the nodes of the open list the learner may expand, by best_only
Expandable(l) ==
    {n \in l.heuristic_queue : l.best_only \/ l.nodes[n].quality < MaxScore}

\* C17: next_node_to_expand returns a node of the open list with the greatest
\* heuristic among those of quality below 1.0 (best_only false) or among all
\* (best_only true), and with best_only false it fails with ValueError when
\* the open list has no node of quality below 1.0.
C17_NextNodeIsBestExpandable ==
    celoe_op.op = "next_node_to_expand" =>
        LET l == celoe_op.before
        IN /\ celoe_op.error = "" =>
                /\ celoe_op.node \in Expandable(l)
                /\ \A m \in Expandable(l) :
                      l.nodes[m].heuristic <= l.nodes[celoe_op.node].heuristic
           /\ (~l.best_only /\ Expandable(l) = {}) => celoe_op.error = "ValueError"
           /\ Expandable(l) # {} => celoe_op.error = ""

\* with best_only false a solved node with a greater heuristic was passed over
C17_Witness ==
    /\ celoe_op.op = "next_node_to_expand" /\ celoe_op.error = ""
    /\ ~celoe_op.before.best_only
    /\ \E m \in celoe_op.before.heuristic_queue :
          /\ celoe_op.before.nodes[m].quality = MaxScore
          /\ celoe_op.before.nodes[m].heuristic > celoe_op.before.nodes[celoe_op.node].heuristic

\* C18: every node of the open list has a quality above 0, a set heuristic and
\* its concept indexed to it in the search tree, and no node of quality 0 is
\* in the open list or in the best descriptions.
C18_OpenListInvariant ==
    /\ \A n \in celoe.heuristic_queue :
          /\ celoe.nodes[n].quality > 0
          /\ IsSet(celoe.nodes[n].heuristic)
          /\ celoe.nodes[n].concept \in Keys(celoe.search_tree)
          /\ DictGet(celoe.search_tree, celoe.nodes[n].concept).node = n
    /\ \A n \in 1..Len(celoe.nodes) :
          celoe.nodes[n].quality = 0 =>
              (n \notin celoe.heuristic_queue /\ n \notin celoe.best_descriptions)

\* between two steps, after a refinement of quality 0 was scored and indexed
C18_Witness ==
    /\ celoe_run.pc = "loop" /\ celoe_run.j = 2
    /\ \E n \in 1..Len(celoe.nodes) :
          celoe.nodes[n].quality = 0 /\ celoe.nodes[n].concept \in Keys(celoe.search_tree)
    /\ Cardinality(celoe.heuristic_queue) >= 2

\* C19: _add_node on a refinement whose concept is already in the search tree
\* returns False and leaves the search tree, the open list, the best
\* descriptions and the tested-concept count as they were.
C19_FirstDiscovererWins ==
    (celoe_op.op = "_add_node" /\ celoe_op.concept \in Keys(celoe_op.before.search_tree))
        => (celoe_op.result = "False" /\ celoe_op.error = "" /\ celoe = celoe_op.before)

\* the concept was first refined from another node than the one now expanded
C19_Witness ==
    /\ celoe_op.op = "_add_node" /\ celoe_op.concept \in Keys(celoe_op.before.search_tree)
    /\ celoe_op.result = "False"
    /\ celoe.nodes[DictGet(celoe.search_tree, celoe_op.concept).node].parent_node
          # celoe_run.most_promising

\* C20: with terminate_on_goal set, once a refinement of quality 1.0 is added
\* fit has returned, and that refinement is the last concept scored.
C20_GoalEndsFit ==
    celoe.terminate_on_goal =>
        \A n \in celoe.heuristic_queue :
            (celoe.nodes[n].quality = MaxScore /\ ~celoe.nodes[n].is_root) =>
                /\ celoe_run.pc = "done" /\ celoe_run.returned = "goal"
                /\ n = Len(celoe.nodes)
                /\ celoe_op.op = "_add_node" /\ celoe_op.node = n
                /\ celoe.number_of_tested_concepts
                      = celoe_op.before.number_of_tested_concepts + 1

\* fit returned on a goal with refinements of the step still unvisited
C20_Witness ==
    /\ celoe.terminate_on_goal
    /\ celoe_run.pc = "done" /\ celoe_run.returned = "goal"
    /\ celoe_run.refinements # <<>>

\* C21: right after downward_refinement(node) the refinements are no longer
\* than the h_exp the node had before the call, the node's h_exp is that value
\* plus 1, its refinement count covers the refinements, its heuristic is set,
\* and it is in the open list, which holds the same nodes as before.
C21_ExpansionRaisesHExp ==
    (celoe_run.pc = "refine" /\ celoe_op.op = "next_node_to_expand" /\ celoe_op.error = "")
        => LET n == celoe_op.node
               b == celoe_op.before
           IN /\ \A i \in 1..Len(celoe_run.refinements) :
                     cl(celoe_run.refinements[i]) <= b.nodes[n].h_exp
              /\ celoe.nodes[n].h_exp = b.nodes[n].h_exp + 1
              /\ Len(celoe_run.refinements) <= celoe.nodes[n].refinement_count
              /\ IsSet(celoe.nodes[n].heuristic)
              /\ n \in celoe.heuristic_queue
              /\ celoe.heuristic_queue = b.heuristic_queue
              /\ \A m \in 1..Len(celoe.nodes) : m # n => celoe.nodes[m] = b.nodes[m]

\* a node expanded again: its h_exp was above its length and the refinements
\* hold a concept of that greater length
C21_Witness ==
    /\ celoe_run.pc = "refine" /\ celoe_op.op = "next_node_to_expand" /\ celoe_op.error = ""
    /\ celoe_op.before.nodes[celoe_op.node].h_exp > cl(celoe_op.concept)
    /\ \E i \in 1..Len(celoe_run.refinements) :
          cl(celoe_run.refinements[i]) = celoe_op.before.nodes[celoe_op.node].h_exp

\* C28: when fit has returned, the number of concepts scored during the run
\* is at most max_num_of_concepts_tested.
C28_TestedWithinBudget ==
    (celoe_run.pc = "done" /\ celoe_run.error = "")
        => celoe.number_of_tested_concepts <= celoe.max_num_of_concepts_tested

\* the count a step may start from: below the budget, or the root alone
StartOfStep(l) ==
    IF l.max_num_of_concepts_tested - 1 > 1 THEN l.max_num_of_concepts_tested - 1 ELSE 1

\* C28 (amended): the budget is checked at the end of a step only, so when fit
\* has returned the number of concepts scored is at most what the last step
\* started from plus the refinements of the node that step expanded.
C28_TestedWithinBudgetAndOneStep ==
    (celoe_run.pc = "done" /\ celoe_run.error = "")
        => celoe.number_of_tested_concepts
              <= StartOfStep(celoe)
                   + (IF celoe_run.most_promising = 0 THEN 0
                      ELSE celoe.nodes[celoe_run.most_promising].refinement_count)

\* fit returned on the budget at the end of a step, above a budget that the
\* root alone had not used up
C28_Witness ==
    /\ celoe_run.pc = "done" /\ celoe_run.returned = "tested"
    /\ celoe.max_num_of_concepts_tested >= 2
    /\ celoe.number_of_tested_concepts > celoe.max_num_of_concepts_tested


(***************************************************************************)
(* SpecHttp: the Flask application serving POST /concept_learning, one      *)
(* request at a time (processes=1).  The body, the outcome of fit and the  *)
(* outcomes of best_hypotheses and export_concepts are inputs.             *)
(***************************************************************************)
MaxRequests == 3
MaxHypotheses == 2

BadRequest == 400
StatusOk == 200
InternalServerError == 500

Bodies == {"malformed", "missing_key", "ok"}
Outcomes == {"returned", "raised"}

\* drill_average.fit(set(learning_problem["positives"]), ...) inside the try:
\* a body without the keys raises KeyError before fit is entered
FitCall(json, outcome) ==
    IF json = "missing_key" THEN "key_error" ELSE outcome

AbortedNever(fit) == FALSE

\* except Exception as e: ... abort(400)
Aborted(fit) == fit # "returned"

concept_learning_endpoint ==
    /\ Len(http_log) < MaxRequests
    /\ \E json \in Bodies, no_of_hypotheses \in 1..MaxHypotheses,
          fit_outcome \in Outcomes,
          best_hypotheses \in Outcomes, export_concepts \in Outcomes :
          LET fit == FitCall(json, fit_outcome)
              response ==
                  IF json = "malformed"
                  THEN \* request.get_json(force=True) raises BadRequest
                       Request("responded", json, 0, "not_called", FALSE, FALSE, FALSE,
                               BadRequest)
                  ELSE IF Aborted(fit)
                  THEN Request("responded", json, no_of_hypotheses, fit, FALSE, FALSE, TRUE, BadRequest)
                  ELSE IF best_hypotheses = "raised"
                  THEN Request("responded", json, no_of_hypotheses, fit, TRUE, FALSE, FALSE,
                               InternalServerError)
                  ELSE IF export_concepts = "raised"
                  THEN Request("responded", json, no_of_hypotheses, fit, TRUE, TRUE, FALSE,
                               InternalServerError)
                  ELSE Request("responded", json, no_of_hypotheses, fit, TRUE, TRUE, FALSE, StatusOk)
          IN  /\ http' = response
              /\ http_log' = Append(http_log, response.status)
    /\ UNCHANGED <<cacheVars, lpVars, nodeVars, lblVars, drillVars, celoeVars, ts_op,
                   wrapVars, restVars>>

InitHttp == CacheIdle /\ LpIdle /\ NodeIdle /\ LblIdle /\ DrillIdle /\ ExtIdle

NextHttp == concept_learning_endpoint

SpecHttp == InitHttp /\ [][NextHttp]_vars

\* C13: a request whose fit call raised is answered with status 400, and
\* neither best_hypotheses nor export_concepts was called for it.
C13_FitFailureAnswers400 ==
    (http.pc = "responded" /\ http.fit = "raised")
        => /\ http.status = BadRequest
           /\ http_log[Len(http_log)] = BadRequest
           /\ ~http.retrieved
           /\ ~http.exported

C13_Witness ==
    /\ http.pc = "responded"
    /\ http.fit = "raised"
    /\ http.logged
    /\ Len(http_log) = 2
    /\ http_log[1] = StatusOk

(***************************************************************************)
(* SpecTs: send_http_request_to_ts_and_fetch_results over every response   *)
(* of the endpoint: unreachable, not JSON, or a SPARQL JSON result whose   *)
(* rows bind each variable of head.vars.                                    *)
(***************************************************************************)
MaxVars == 2
MaxRows == 2
MaxQueries == 1

\* b[v]: the type of a binding and whether it carries a "datatype" key
Binding(type, datatype) == [type |-> type, datatype |-> datatype]

BindingKinds ==
    {Binding("uri", FALSE), Binding("bnode", FALSE), Binding("literal", TRUE),
     Binding("literal", FALSE), Binding("triple", FALSE)}

ReturnTypes == {"OWLLiteral", "OWLClass", "OWLNamedIndividual"}

SeqsUpTo(S, n) == UNION {[1..k -> S] : k \in 0..n}

\* the list val of one row, built in the order of vars_; <<"raise">> when a
\* binding is of a type the chain of elifs does not know
RECURSIVE RowValues(_, _)
RowValues(b, v) ==
    IF v > Len(b) THEN <<>>
    ELSE LET rest == RowValues(b, v + 1)
         IN  IF rest = <<"raise">> THEN rest
             ELSE IF b[v].type = "uri" THEN <<"IRI">> \o rest
             ELSE IF b[v].type = "bnode" THEN rest
             ELSE IF b[v].type = "literal" /\ b[v].datatype THEN <<"OWLLiteral">> \o rest
             ELSE IF b[v].type = "literal" /\ ~b[v].datatype THEN rest
             ELSE <<"raise">>

\* the first row of bindings that raises NotImplementedError (0: none)
FirstRaising(bindings) ==
    LET raising == {i \in 1..Len(bindings) : RowValues(bindings[i], 1) = <<"raise">>}
    IN  IF raising = {} THEN 0 ELSE CHOOSE i \in raising : \A k \in raising : i <= k

\* unwrap: what the generator yields, row by row, up to the row that raises
unwrap(bindings) ==
    LET stop == FirstRaising(bindings)
        n == IF stop = 0 THEN Len(bindings) ELSE stop - 1
    IN  [i \in 1..n |->
            LET val == RowValues(bindings[i], 1)
            IN  IF Len(val) = 1 THEN val[1] ELSE "None"]

\* a value handed to the caller: the item of unwrap, wrapped in the return
\* type unless the return type is OWLLiteral
Yielded(wrap, item) == [wrap |-> wrap, val |-> item]

RECURSIVE NotNone(_)
NotNone(items) ==
    IF items = <<>> THEN <<>>
    ELSE IF items[1] = "None" THEN NotNone(Tail(items))
    ELSE <<items[1]>> \o NotNone(Tail(items))

send_http_request_to_ts_and_fetch_results ==
    /\ ts_op.queries < MaxQueries
    /\ \E response \in {"unreachable", "not_json", "json"},
          return_type \in ReturnTypes, vars_ \in 1..MaxVars :
       \E bindings \in SeqsUpTo([1..vars_ -> BindingKinds], MaxRows) :
          LET items == unwrap(bindings)
              raised == FirstRaising(bindings) # 0
              sent == ts_op.queries + 1
          IN  ts_op' =
                  IF response = "unreachable"
                  THEN Fetch("fetch", return_type, <<>>, <<>>, "RequestException", sent)
                  ELSE IF response = "not_json"
                  THEN Fetch("fetch", return_type, <<>>, <<>>, "JSONDecodeError", sent)
                  ELSE IF return_type = "OWLLiteral"
                  THEN \* yield from unwrap(response)
                       Fetch("fetch", return_type, bindings,
                             [i \in 1..Len(items) |-> Yielded("", items[i])],
                             IF raised THEN "NotImplementedError" ELSE "", sent)
                  ELSE IF raised
                  THEN \* the list is built before anything is yielded
                       Fetch("fetch", return_type, bindings, <<>>, "NotImplementedError", sent)
                  ELSE LET kept == NotNone(items)
                       IN  Fetch("fetch", return_type, bindings,
                                 [i \in 1..Len(kept) |-> Yielded(return_type, kept[i])],
                                 "", sent)
    /\ UNCHANGED <<cacheVars, lpVars, nodeVars, lblVars, drillVars, celoeVars,
                   http, http_log, wrapVars, restVars>>

InitTs == CacheIdle /\ LpIdle /\ NodeIdle /\ LblIdle /\ DrillIdle /\ ExtIdle

NextTs == send_http_request_to_ts_and_fetch_results

SpecTs == InitTs /\ [][NextTs]_vars

\* the bindings of a row that carry a value: a URI or a literal with a datatype
Valued(b) ==
    {v \in 1..Len(b) : b[v].type = "uri" \/ (b[v].type = "literal" /\ b[v].datatype)}

\* C14: whatever the return type, a query that ends without an error hands
\* the caller one value for each row with exactly one valued binding and
\* nothing for any other row: no None among the yielded values.
C14_RowsYieldSingleValuesOnly ==
    (ts_op.op = "fetch" /\ ts_op.error = "")
        => /\ \A i \in 1..Len(ts_op.yielded) : ts_op.yielded[i].val # "None"
           /\ Len(ts_op.yielded) =
                  Cardinality({i \in 1..Len(ts_op.bindings) :
                                  Cardinality(Valued(ts_op.bindings[i])) = 1})

(***************************************************************************)
(* SpecExtend: BaseConceptLearner.extend_ontology over search trees of a   *)
(* few nodes, each given by the value of the chosen key.                    *)
(***************************************************************************)
MaxTree == 3
MaxTopN == 2

RECURSIVE InsertByKey(_, _)
InsertByKey(sorted, nd) ==
    IF sorted = <<>> THEN <<nd>>
    ELSE IF sorted[1].key >= nd.key THEN <<sorted[1]>> \o InsertByKey(Tail(sorted), nd)
    ELSE <<nd>> \o sorted

\* search_tree.sort_search_tree_by_decreasing_order(key=key)
RECURSIVE sort_search_tree_by_decreasing_order(_)
sort_search_tree_by_decreasing_order(tree) ==
    IF tree = <<>> THEN <<>>
    ELSE InsertByKey(sort_search_tree_by_decreasing_order(SubSeq(tree, 1, Len(tree) - 1)),
                     tree[Len(tree)])

\* `if ith <= top_n_concepts`, ith counting from 0
Enrichable(ith, top_n_concepts) == ith <= top_n_concepts

\* the nodes the loop passes to kb.apply_type_enrichment before its break
RECURSIVE Enriched(_, _, _)
Enriched(tree, ith, top_n_concepts) ==
    IF ith >= Len(tree) \/ ~Enrichable(ith, top_n_concepts) THEN <<>>
    ELSE <<tree[ith + 1].id>> \o Enriched(tree, ith + 1, top_n_concepts)

extend_ontology ==
    /\ \E keys \in SeqsUpTo(Scores, MaxTree), top_n_concepts \in 0..MaxTopN :
          LET tree == sort_search_tree_by_decreasing_order(
                          [i \in 1..Len(keys) |-> [id |-> i, key |-> keys[i]]])
          IN  extend_op' = Extend("extend_ontology", tree, top_n_concepts,
                                  Enriched(tree, 0, top_n_concepts))
    /\ UNCHANGED <<cacheVars, lpVars, nodeVars, lblVars, drillVars, celoeVars, svcVars,
                   wrapVars, inst_op, axioms_op>>

InitExtend == CacheIdle /\ LpIdle /\ NodeIdle /\ LblIdle /\ DrillIdle /\ ExtIdle

NextExtend == extend_ontology

SpecExtend == InitExtend /\ [][NextExtend]_vars

\* C23: extend_ontology(top_n_concepts = N) enriches the first N nodes of the
\* search tree in decreasing order of the key, all nodes when there are fewer
\* than N, and no other node.
C23_EnrichesExactlyTopN ==
    extend_op.op = "extend_ontology" =>
        LET tree == extend_op.tree
            n == IF Len(tree) < extend_op.top_n_concepts
                 THEN Len(tree) ELSE extend_op.top_n_concepts
        IN  /\ \A i \in 1..(Len(tree) - 1) : tree[i].key >= tree[i + 1].key
            /\ extend_op.enriched = [i \in 1..n |-> tree[i].id]

(***************************************************************************)
(* SpecInst: TripleStoreReasoner.instances(ce, direct) over every set of   *)
(* owl:equivalentClass assertions between three named classes.  The call   *)
(* is a generator: each step resumes the innermost unfinished call.        *)
(***************************************************************************)
TsClasses == {"A", "B", "C"}

\* x owl:equivalentClass y, as <<x, y>>
TsAssertions == {pr \in TsClasses \X TsClasses : pr[1] # pr[2]}

\* TripleStoreReasoner.equivalent_classes(ce), ce a named class: the classes
\* asserted equivalent to ce in either direction, ce left out
equivalent_classes(assertions, ce) ==
    {x \in TsClasses : x # ce /\ (<<x, ce>> \in assertions \/ <<ce, x>> \in assertions)}

SeenNever(cls, seen_set) == FALSE

\* `cls not in seen_set`, negated
Seen(cls, seen_set) == cls \in seen_set

\* the top-level call instances(ce, direct): seen_set = {ce}, the query for ce
\* is sent, and the loop over equivalent_classes(ce) is entered unless direct
instances ==
    /\ inst_op.op = "new"
    /\ \E assertions \in SUBSET TsAssertions, ce \in TsClasses, direct \in BOOLEAN :
          inst_op' = Instances(IF direct THEN "done" ELSE "running", assertions,
                               IF direct THEN <<>>
                               ELSE <<[ce |-> ce,
                                       pending |-> equivalent_classes(assertions, ce)]>>,
                               {ce}, <<ce>>)
    /\ UNCHANGED <<cacheVars, lpVars, nodeVars, lblVars, drillVars, celoeVars, svcVars,
                   wrapVars, extend_op, axioms_op>>

\* one pass of `for cls in self.equivalent_classes(ce)` in the innermost call,
\* or its return when the loop is exhausted
instances_loop ==
    /\ inst_op.op = "running"
    /\ LET depth == Len(inst_op.stack)
           top == inst_op.stack[depth]
       IN IF top.pending = {}
          THEN inst_op' = [inst_op EXCEPT !.stack = SubSeq(@, 1, depth - 1),
                                          !.op = IF depth = 1 THEN "done" ELSE @]
          ELSE \E cls \in top.pending :
                  LET visited == [inst_op EXCEPT !.stack[depth].pending = @ \ {cls}]
                  IN IF Seen(cls, inst_op.seen_set)
                     THEN inst_op' = visited
                     ELSE inst_op' =
                              [visited EXCEPT
                                  !.seen_set = @ \cup {cls},
                                  !.queried = Append(@, cls),
                                  !.stack = Append(@, [ce |-> cls,
                                                       pending |-> equivalent_classes(
                                                           inst_op.assertions, cls)])]
    /\ UNCHANGED <<cacheVars, lpVars, nodeVars, lblVars, drillVars, celoeVars, svcVars,
                   wrapVars, extend_op, axioms_op>>

InitInst == CacheIdle /\ LpIdle /\ NodeIdle /\ LblIdle /\ DrillIdle /\ ExtIdle

NextInst == instances \/ instances_loop

SpecInst == InitInst /\ [][NextInst]_vars

\* the work a call has left: the classes not yet seen, each weighing more than
\* the call it may start, and the passes left in the unfinished calls
SeenWeight == Cardinality(TsClasses) + 1

RECURSIVE PendingPasses(_)
PendingPasses(stack) ==
    IF stack = <<>> THEN 0
    ELSE 1 + Cardinality(stack[1].pending) + PendingPasses(Tail(stack))

InstRank ==
    IF inst_op.op = "new" THEN (Cardinality(TsClasses) + 1) * SeenWeight
    ELSE (Cardinality(TsClasses) - Cardinality(inst_op.seen_set)) * SeenWeight
             + PendingPasses(inst_op.stack)

\* C29: a top-level instances call queries every class at most once, and it
\* terminates: each step lowers the work left, which is never negative.
C29_EachClassExpandedOnce ==
    /\ [](\A i, k \in 1..Len(inst_op.queried) :
              i # k => inst_op.queried[i] # inst_op.queried[k])
    /\ [](InstRank >= 0)
    /\ [][InstRank' < InstRank]_vars

\* a finished call over a cycle of three classes, each queried
C29_Witness ==
    /\ inst_op.op = "done"
    /\ {<<"A", "B">>, <<"B", "C">>, <<"C", "A">>} \subseteq inst_op.assertions
    /\ Len(inst_op.queried) = 3

(***************************************************************************)
(* SpecAxioms: the domain and range axioms of TripleStoreOntology for a    *)
(* property, over every short list of classes the store declares for it.   *)
(***************************************************************************)
MaxDeclared == 3

AxiomMethods ==
    {"data_property_domain_axioms", "object_property_domain_axioms",
     "object_property_range_axioms"}

\* peek(generator): None for an empty generator, else the pair of the first
\* element and the generator with that element put back
peek(generator) ==
    IF generator = <<>> THEN [none |-> TRUE, pair |-> <<>>]
    ELSE [none |-> FALSE, pair |-> <<generator[1], generator>>]

\* `first_element, domains = peek(...)` and the branches on first_element;
\* unpacking None raises TypeError
property_axioms ==
    /\ \E method \in AxiomMethods, declared \in SeqsUpTo(TsClasses, MaxDeclared) :
          LET peeked == peek(declared)
          IN  axioms_op' =
                  IF peeked.none
                  THEN Axioms(method, declared, <<>>, "TypeError")
                  ELSE LET first_element == peeked.pair[1]
                           domains == peeked.pair[2]
                       IN  IF first_element = "None"
                           THEN Axioms(method, declared, <<"Thing">>, "")
                           ELSE Axioms(method, declared, domains, "")
    /\ UNCHANGED <<cacheVars, lpVars, nodeVars, lblVars, drillVars, celoeVars, svcVars,
                   wrapVars, extend_op, inst_op>>

InitAxioms == CacheIdle /\ LpIdle /\ NodeIdle /\ LblIdle /\ DrillIdle /\ ExtIdle

NextAxioms == property_axioms

SpecAxioms == InitAxioms /\ [][NextAxioms]_vars

\* C30: for a property with no declared domain (range), each of the three
\* methods yields exactly one axiom, over owl:Thing, and raises nothing.
C30_UndeclaredYieldsThing ==
    (axioms_op.op \in AxiomMethods /\ axioms_op.declared = <<>>)
        => /\ axioms_op.error = ""
           /\ axioms_op.yielded = <<"Thing">>

====
